---- MODULE Spec2Model ----
(***************************************************************************)
(* Zero knowledge range proofs of src/algorithms/zkp.rs: the Fujisaki -     *)
(* Okamoto setup and its Schnorr proofs, Alice's range proof, Bob's range  *)
(* proofs for MtA and MtAwc, and the MessageA / MessageB envelopes.        *)
(*                                                                         *)
(* The arithmetic is the code's, on small parameters: the curve order is   *)
(* FE_q, Paillier moduli come from EncryptionKeys, safe primes from        *)
(* SafePrimePool.  BigInt is GMP's mpz: `%` truncates towards zero, powm   *)
(* returns the residue in [0, m), accepts a negative exponent when the     *)
(* base is invertible and raises a division by zero (the process aborts)   *)
(* when it is not.                                                         *)
(***************************************************************************)
EXTENDS Integers, Sequences, FiniteSets, TLC

(***************************************************************************)
(* BigInt helpers                                                          *)
(***************************************************************************)
Abs(x) == IF x < 0 THEN -x ELSE x

\* BigInt `%` (mpz_tdiv_r): the remainder has the sign of the dividend.
\* Where the code reduces a product of three factors, the model reduces after
\* the second as well: the remainder is the same.
Rem(a, m) == IF a >= 0 THEN a % m ELSE -((-a) % m)

RECURSIVE gcd(_, _)
gcd(a, b) == IF b = 0 THEN Abs(a) ELSE gcd(b, Abs(a) % Abs(b))

RECURSIVE lcmAll(_)
lcmAll(xs) == IF xs = <<>> THEN 1
              ELSE LET r == lcmAll(Tail(xs)) IN (Head(xs) * r) \div gcd(Head(xs), r)

None == [some |-> FALSE, val |-> 0]
Some(x) == [some |-> TRUE, val |-> x]

\* BigInt::invert: Some(inverse in [0, m)) or None.
invert(a, m) ==
    IF gcd(a % m, m) = 1
    THEN Some(CHOOSE x \in 0 .. m - 1 : (((a % m) * x) % m) = 1 % m)
    ELSE None

RECURSIVE powPos(_, _, _)
powPos(b, e, m) ==
    IF e = 0 THEN 1 % m
    ELSE LET h == powPos(b, e \div 2, m)
             hh == (h * h) % m
         IN IF e % 2 = 1 THEN (hh * b) % m ELSE hh

\* mpz_powm raises a division by zero for a negative exponent of a base that
\* has no inverse.
powmAborts(b, e, m) == e < 0 /\ gcd(b % m, m) # 1

\* BigInt::powm, where it returns.
powm(b, e, m) ==
    IF e >= 0 THEN powPos(b % m, e, m)
    ELSE powPos(invert(b, m).val, -e, m)

(***************************************************************************)
(* Bounds of the model                                                     *)
(***************************************************************************)
\* sample_range draws one of the MaxSample + 1 smallest or largest values.
MaxSample == 1
\* Nonces of the Fiat - Shamir hash are drawn from 0 .. MaxNonce.
MaxNonce == 1

(***************************************************************************)
(* Parameters                                                              *)
(***************************************************************************)
\* FE::q(), the order of the curve group.
FE_q == 3
q3 == FE_q * FE_q * FE_q

\* Paillier public keys (n, nn) with their factors, as PaillierKeys::random
\* would return them.
EncryptionKeys == {[n |-> 35, nn |-> 1225]}

\* The pool pair_of_safe_primes draws from: p = 2 p' + 1, q = 2 q' + 1.
SafePrimePool == {[p |-> 5, p_prim |-> 2, q |-> 11, q_prim |-> 5],
                  [p |-> 7, p_prim |-> 3, q |-> 11, q_prim |-> 5]}

\* BigInt::sample_below(n): the model draws at the two ends of [0, n).
sample_below(n) == {0, n - 1}
\* BigInt::sample_range(lo, hi): the model draws one of the MaxSample + 1
\* smallest or largest values of [lo, hi).
sample_range(lo, hi) == {x \in lo .. hi - 1 : x <= lo + MaxSample \/ x >= hi - 1 - MaxSample}

Units(N) == {x \in 1 .. N - 1 : gcd(x, N) = 1}
\* SampleFromMultiplicativeGroup::from_modulo: a unit below N; the model draws
\* the smallest unit above 1 and the largest one.
from_modulo(N) ==
    LET U == Units(N) \ {1}
    IN {x \in U : (\A y \in U : x <= y) \/ (\A y \in U : x >= y)}

(***************************************************************************)
(* HSha512Trunc256                                                         *)
(***************************************************************************)
\* The hash keeps HashState values of state and is truncated to HashBits bits.
HashBits == 2
HashState == 251
HashMul == 31
HashMod == 2 ^ HashBits

RECURSIVE hashFold(_, _)
hashFold(xs, acc) ==
    IF xs = <<>> THEN acc
    ELSE LET x == Head(xs)
             enc == 2 * Abs(x) + (IF x < 0 THEN 1 ELSE 0)
         IN hashFold(Tail(xs), (acc * HashMul + enc + 7) % HashState)

\* create_hash: the truncated hash of the inputs.
create_hash(xs) == hashFold(xs, 1) % HashMod

\* create_hash_with_nonce: (H(xs || nonce), nonce).
create_hash_with_nonce(xs, nonce) == <<create_hash(Append(xs, nonce)), nonce>>

Nonces == 0 .. MaxNonce

\* create_hash_bounded_by_q: the nonce is resampled until the hash is below q.
create_hash_bounded_by_q(xs, q) ==
    {create_hash_with_nonce(xs, n) : n \in {m \in Nonces : create_hash(Append(xs, m)) < q}}

\* create_hash_with_random_nonce: a fresh nonce, the hash is used as it is.
create_hash_with_random_nonce(xs) ==
    {create_hash_with_nonce(xs, n) : n \in Nonces}

(***************************************************************************)
(* ZkpSetup                                                                *)
(***************************************************************************)
\* sample_generator_of_rsa_group(p, q): a generator of the subgroup of
\* quadratic residues of Z_{pq}^*, whose order is p' q'.
RECURSIVE ordOf(_, _, _, _)
ordOf(x, acc, k, m) == IF acc = 1 % m THEN k ELSE ordOf(x, (acc * x) % m, k + 1, m)
Order(x, m) == ordOf(x % m, x % m, 1, m)

sample_generator_of_rsa_group(p, q) ==
    {h \in {(x * x) % (p * q) : x \in Units(p * q)} :
        Order(h, p * q) = ((p - 1) \div 2) * ((q - 1) \div 2)}

\* PairOfSafePrimes::zeroize: every field of the pair is overwritten with zero.
zeroize(pr) == [f \in DOMAIN pr |-> 0]

ZeroPrimes == [p |-> 0, p_prim |-> 0, q |-> 0, q_prim |-> 0]

NoSetup == [p |-> 0, q |-> 0, order |-> 0, alpha |-> 0, N_tilda |-> 0, h1 |-> 0, h2 |-> 0]

ZkpSetup_random_BadH2(primes, b0, alpha) ==
    [p |-> primes.p, q |-> primes.q, order |-> primes.p_prim * primes.q_prim,
     alpha |-> alpha, N_tilda |-> primes.p * primes.q, h1 |-> b0,
     h2 |-> powm(b0, alpha, primes.p_prim * primes.q_prim)]

\* ZkpSetup::random, given what it draws.
ZkpSetup_random(primes, b0, alpha) ==
    LET N_tilda == primes.p * primes.q
        order == primes.p_prim * primes.q_prim
        b1 == powm(b0, alpha, N_tilda)
    IN [p |-> primes.p, q |-> primes.q, order |-> order, alpha |-> alpha,
        N_tilda |-> N_tilda, h1 |-> b0, h2 |-> b1]

\* ZkpSetup::verify_setup
verify_setup(s) == s.h2 = powm(s.h1, s.alpha, s.N_tilda)

NoSetupProof == [V |-> 0, challenge |-> 0, r |-> 0]

dlog_proof_Plus(N_tilda, h1, h2, dlog, order, v) ==
    LET V == powm(h1, v, N_tilda)
        challenge == create_hash(<<N_tilda, V, h1, h2>>)
        r == Rem(v + dlog * challenge, order)
    IN [V |-> V, challenge |-> challenge, r |-> r]

\* ZkpSetup::dlog_proof, given the nonce v it draws.
dlog_proof(N_tilda, h1, h2, dlog, order, v) ==
    LET V == powm(h1, v, N_tilda)
        challenge == create_hash(<<N_tilda, V, h1, h2>>)
        r == Rem(v - dlog * challenge, order)
    IN [V |-> V, challenge |-> challenge, r |-> r]

NoPublicSetup == [N_tilda |-> 0, h1 |-> 0, h2 |-> 0,
                  dlog_proof |-> NoSetupProof, inv_dlog_proof |-> NoSetupProof]

\* ZkpPublicSetup::from_private_zkp_setup panics when alpha has no inverse.
from_private_panics(setup) == ~invert(setup.alpha, setup.order).some

\* ZkpPublicSetup::from_private_zkp_setup, where it returns.
from_private_zkp_setup(setup, v1, v2) ==
    LET inv_alpha == invert(setup.alpha, setup.order).val
    IN [N_tilda |-> setup.N_tilda, h1 |-> setup.h1, h2 |-> setup.h2,
        dlog_proof |-> dlog_proof(setup.N_tilda, setup.h1, setup.h2, setup.alpha, setup.order, v1),
        inv_dlog_proof |-> dlog_proof(setup.N_tilda, setup.h2, setup.h1, inv_alpha, setup.order, v2)]

verify_proof_EquationFirst(N_tilda, h1, h2, proof) ==
    LET challenge == create_hash(<<N_tilda, proof.V, h1, h2>>)
    IN IF powmAborts(h1, proof.r, N_tilda) THEN "abort"
       ELSE LET V == Rem(powm(h1, proof.r, N_tilda) * powm(h2, challenge, N_tilda), N_tilda)
            IN IF V # proof.V THEN "Dlog proof failed"
               ELSE IF challenge # proof.challenge THEN "dlog proof: challenge does not match"
               ELSE "Ok"

\* ZkpPublicSetup::verify_proof: "Ok", or the error it returns.  A negative r
\* whose base has no inverse makes powm abort.
verify_proof(N_tilda, h1, h2, proof) ==
    LET challenge == create_hash(<<N_tilda, proof.V, h1, h2>>)
    IN IF challenge # proof.challenge THEN "dlog proof: challenge does not match"
       ELSE IF powmAborts(h1, proof.r, N_tilda) THEN "abort"
       ELSE LET V == Rem(powm(h1, proof.r, N_tilda) * powm(h2, challenge, N_tilda), N_tilda)
            IN IF V = proof.V THEN "Ok" ELSE "Dlog proof failed"

ZkpPublicSetup_verify_FirstOnly(pub) ==
    verify_proof(pub.N_tilda, pub.h1, pub.h2, pub.dlog_proof)

\* ZkpPublicSetup::verify
ZkpPublicSetup_verify(pub) ==
    LET first == verify_proof(pub.N_tilda, pub.h1, pub.h2, pub.dlog_proof)
    IN IF first # "Ok" THEN first
       ELSE verify_proof(pub.N_tilda, pub.h2, pub.h1, pub.inv_dlog_proof)

(***************************************************************************)
(* Alice's range proof                                                     *)
(***************************************************************************)
\* AliceZkpInit::random: the ephemeral values of one proof.
AliceZkpInit_random(alice_pk, bob_setup, q) ==
    {[alpha |-> al, beta |-> be, gamma |-> ga, ro |-> ro] :
        al \in sample_below(q * q * q),
        be \in from_modulo(alice_pk.n),
        ga \in sample_below(q * q * q * bob_setup.N_tilda),
        ro \in sample_below(q * bob_setup.N_tilda)}

\* AliceZkpRound1::from
AliceZkpRound1_from(init, alice_pk, bob_setup, a) ==
    LET N == alice_pk.n
        NN == alice_pk.nn
        N_tilda == bob_setup.N_tilda
    IN [z |-> Rem(powm(bob_setup.h1, a, N_tilda) * powm(bob_setup.h2, init.ro, N_tilda), N_tilda),
        u |-> Rem((init.alpha * N + 1) * powm(init.beta, N, NN), NN),
        w |-> Rem(powm(bob_setup.h1, init.alpha, N_tilda)
                  * powm(bob_setup.h2, init.gamma, N_tilda), N_tilda)]

AliceZkpRound2_from_BadS2(init, alice_pk, e, a, r) ==
    [s |-> Rem(powm(r, e, alice_pk.n) * init.beta, alice_pk.n),
     s1 |-> (e * a) + init.alpha,
     s2 |-> (e * init.ro) + init.gamma + 1]

\* AliceZkpRound2::from
AliceZkpRound2_from(init, alice_pk, e, a, r) ==
    [s |-> Rem(powm(r, e, alice_pk.n) * init.beta, alice_pk.n),
     s1 |-> (e * a) + init.alpha,
     s2 |-> (e * init.ro) + init.gamma]

NoAliceProof == [z |-> 0, u |-> 0, w |-> 0, e |-> <<0, 0>>, s |-> 0, s1 |-> 0, s2 |-> 0]

\* The inputs of Alice's Fiat - Shamir hash.
AliceTranscript(alice_ek, cipher, z, u, w) ==
    <<alice_ek.n, alice_ek.n + 1, cipher, z, u, w>>

\* AliceProof::generate: the proofs it can return; inits are the values
\* AliceZkpInit::random can draw.
AliceProof_generate(a, cipher, alice_pk, bob_zkp_setup, r, q, inits) ==
    UNION {
        LET round1 == AliceZkpRound1_from(init, alice_pk, bob_zkp_setup, a)
        IN {LET round2 == AliceZkpRound2_from(init, alice_pk, e[1], a, r)
            IN [z |-> round1.z, u |-> round1.u, w |-> round1.w, e |-> e,
                s |-> round2.s, s1 |-> round2.s1, s2 |-> round2.s2] :
            e \in create_hash_bounded_by_q(
                    AliceTranscript(alice_pk, cipher, round1.z, round1.u, round1.w), q)} :
        init \in inits}

AliceProof_verify_NoRange(proof, cipher, alice_ek, bob_zkp_setup) ==
    LET N == alice_ek.n
        NN == alice_ek.nn
        N_tilda == bob_zkp_setup.N_tilda
        e == create_hash_with_nonce(
                AliceTranscript(alice_ek, cipher, proof.z, proof.u, proof.w), proof.e[2])
        z_e_inv == invert(powm(proof.z, proof.e[1], N_tilda), N_tilda)
        wprim == Rem(powm(bob_zkp_setup.h1, proof.s1, N_tilda)
                     * powm(bob_zkp_setup.h2, proof.s2, N_tilda) * z_e_inv.val, N_tilda)
        gs1 == Rem(proof.s1 * N + 1, NN)
        cipher_e_inv == invert(powm(cipher, proof.e[1], NN), NN)
        uprim == Rem(Rem(gs1 * powm(proof.s, N, NN), NN) * cipher_e_inv.val, NN)
    IN IF e # proof.e THEN "false"
       ELSE IF ~z_e_inv.some THEN "false"
       ELSE IF powmAborts(bob_zkp_setup.h1, proof.s1, N_tilda)
               \/ powmAborts(bob_zkp_setup.h2, proof.s2, N_tilda) THEN "abort"
       ELSE IF proof.w # wprim THEN "false"
       ELSE IF ~cipher_e_inv.some THEN "false"
       ELSE IF uprim # proof.u THEN "false"
       ELSE "true"

\* AliceProof::verify: "true", "false", or "abort" when powm divides by zero.
AliceProof_verify(proof, cipher, alice_ek, bob_zkp_setup) ==
    LET N == alice_ek.n
        NN == alice_ek.nn
        N_tilda == bob_zkp_setup.N_tilda
        e == create_hash_with_nonce(
                AliceTranscript(alice_ek, cipher, proof.z, proof.u, proof.w), proof.e[2])
        z_e_inv == invert(powm(proof.z, proof.e[1], N_tilda), N_tilda)
        wprim == Rem(powm(bob_zkp_setup.h1, proof.s1, N_tilda)
                     * powm(bob_zkp_setup.h2, proof.s2, N_tilda) * z_e_inv.val, N_tilda)
        gs1 == Rem(proof.s1 * N + 1, NN)
        cipher_e_inv == invert(powm(cipher, proof.e[1], NN), NN)
        uprim == Rem(Rem(gs1 * powm(proof.s, N, NN), NN) * cipher_e_inv.val, NN)
    IN IF e # proof.e THEN "false"
       ELSE IF proof.s1 > q3 THEN "false"
       ELSE IF ~z_e_inv.some THEN "false"
       ELSE IF powmAborts(bob_zkp_setup.h1, proof.s1, N_tilda)
               \/ powmAborts(bob_zkp_setup.h2, proof.s2, N_tilda) THEN "abort"
       ELSE IF proof.w # wprim THEN "false"
       ELSE IF ~cipher_e_inv.some THEN "false"
       ELSE IF uprim # proof.u THEN "false"
       ELSE "true"

(***************************************************************************)
(* Paillier                                                                *)
(***************************************************************************)
\* Paillier::encrypt_with_chosen_randomness: (m N + 1) r^N mod N^2.
encrypt_with_chosen_randomness(pk, m, r) ==
    (((m * pk.n + 1) % pk.nn) * powm(r, pk.n, pk.nn)) % pk.nn

\* Paillier::mul: the ciphertext to the power of the plaintext.
Paillier_mul(pk, c, m) == powm(c, m, pk.nn)

\* Paillier::add: the product of the ciphertexts.
Paillier_add(pk, c1, c2) == (c1 * c2) % pk.nn

\* The private exponent of the key of N = p q: lambda = lcm(p - 1, q - 1).
Paillier_lambda(pk) ==
    LET p == CHOOSE d \in 2 .. pk.n : pk.n % d = 0 /\ \A c \in 2 .. d - 1 : pk.n % c # 0
        q == pk.n \div p
    IN ((p - 1) * (q - 1)) \div gcd(p - 1, q - 1)

\* Paillier::decrypt: L(c^lambda mod N^2) / lambda mod N, where L(x) = (x - 1) / N.
Paillier_decrypt(pk, c) ==
    LET lambda == Paillier_lambda(pk)
        L == (powm(c, lambda, pk.nn) - 1) \div pk.n
    IN (L * invert(lambda, pk.n).val) % pk.n

\* Randomness::sample: the randomness of an encryption, a unit modulo N.
Randomness_sample(pk) == from_modulo(pk.n)

(***************************************************************************)
(* MessageA                                                                *)
(***************************************************************************)
NoMessageA == [c |-> 0, range_proof |-> [some |-> FALSE, val |-> NoAliceProof]]

MessageA_new_ProofOverOtherR(a, alice_pk, bob_setup, r, inits) ==
    LET cipher == encrypt_with_chosen_randomness(alice_pk, a, r)
    IN IF bob_setup.some
       THEN {[c |-> cipher, range_proof |-> Some(proof)] :
                proof \in AliceProof_generate(a, cipher, alice_pk, bob_setup.val, 1, FE_q, inits)}
       ELSE {[c |-> cipher, range_proof |-> [some |-> FALSE, val |-> NoAliceProof]]}

\* MessageA::new, given the randomness r it draws and the values inits that
\* AliceZkpInit::random can draw: the messages it can return.
\* bob_setup is None or Some(public setup).
MessageA_new(a, alice_pk, bob_setup, r, inits) ==
    LET cipher == encrypt_with_chosen_randomness(alice_pk, a, r)
    IN IF bob_setup.some
       THEN {[c |-> cipher, range_proof |-> Some(proof)] :
                proof \in AliceProof_generate(a, cipher, alice_pk, bob_setup.val, r, FE_q, inits)}
       ELSE {[c |-> cipher, range_proof |-> [some |-> FALSE, val |-> NoAliceProof]]}

(***************************************************************************)
(* The curve group: cyclic of order FE_q.  A point is written by its       *)
(* multiple of the generator; a scalar FE is a residue modulo FE_q.        *)
(***************************************************************************)
\* ECScalar::from(&BigInt): the residue modulo the curve order.
ECScalar_from(n) == n % FE_q
\* ECPoint::generator()
ECPoint_generator == 1
\* point * scalar
PointMul(P, fe) == (P * fe) % FE_q

PointAdd_Left(P, Q) == P

\* point + point
PointAdd(P, Q) == (P + Q) % FE_q
\* The affine coordinates: P and -P share x, y tells them apart.
x_coor(P) == (P * P) % FE_q
y_coor(P) == P

(***************************************************************************)
(* Bob's range proofs                                                      *)
(***************************************************************************)
\* BobZkpInit::random: the ephemeral values of one proof.
BobZkpInit_random(alice_ek, alice_setup, q) ==
    {[alpha |-> al, beta |-> be, gamma |-> ga, ro |-> ro, ro_prim |-> rp,
      sigma |-> si, tau |-> ta] :
        al \in sample_below(q * q * q),
        be \in from_modulo(alice_ek.n),
        ga \in Randomness_sample(alice_ek),
        ro \in sample_below(q * alice_setup.N_tilda),
        rp \in sample_below(q * q * q * alice_setup.N_tilda),
        si \in sample_below(q * alice_setup.N_tilda),
        ta \in sample_below(q * alice_setup.N_tilda)}

\* BobZkpRound1::from
BobZkpRound1_from(init, alice_ek, alice_setup, b, beta_prim, a_encrypted) ==
    LET N == alice_ek.n
        NN == alice_ek.nn
        N_tilda == alice_setup.N_tilda
        h1 == alice_setup.h1
        h2 == alice_setup.h2
    IN [z |-> Rem(powm(h1, b, N_tilda) * powm(h2, init.ro, N_tilda), N_tilda),
        z_prim |-> Rem(powm(h1, init.alpha, N_tilda) * powm(h2, init.ro_prim, N_tilda), N_tilda),
        t |-> Rem(powm(h1, beta_prim, N_tilda) * powm(h2, init.sigma, N_tilda), N_tilda),
        w |-> Rem(powm(h1, init.gamma, N_tilda) * powm(h2, init.tau, N_tilda), N_tilda),
        v |-> Rem(Rem(powm(a_encrypted, init.alpha, NN) * (init.gamma * N + 1), NN)
                  * powm(init.beta, N, NN), NN)]

BobZkpRound2_from_BadT1(init, alice_ek, e, b, beta_prim, r) ==
    [s |-> Rem(powm(r, e, alice_ek.n) * init.beta, alice_ek.n),
     s1 |-> (e * b) + init.alpha,
     s2 |-> (e * init.ro) + init.ro_prim,
     t1 |-> (e * beta_prim) + init.gamma + 1,
     t2 |-> (e * init.sigma) + init.tau]

\* BobZkpRound2::from
BobZkpRound2_from(init, alice_ek, e, b, beta_prim, r) ==
    [s |-> Rem(powm(r, e, alice_ek.n) * init.beta, alice_ek.n),
     s1 |-> (e * b) + init.alpha,
     s2 |-> (e * init.ro) + init.ro_prim,
     t1 |-> (e * beta_prim) + init.gamma,
     t2 |-> (e * init.sigma) + init.tau]

NoBobProof == [t |-> 0, v |-> 0, w |-> 0, z |-> 0, z_prim |-> 0, e |-> <<0, 0>>,
               s |-> 0, s1 |-> 0, s2 |-> 0, t1 |-> 0, t2 |-> 0]

BobTranscript_NoC2(alice_ek, a_enc, mta_out, z, z_prim, t, v, w) ==
    <<alice_ek.n, alice_ek.n + 1, a_enc, z, z_prim, t, v, w>>

\* The inputs of the Fiat - Shamir hash of BobProof.
BobTranscript(alice_ek, a_enc, mta_out, z, z_prim, t, v, w) ==
    <<alice_ek.n, alice_ek.n + 1, a_enc, mta_out, z, z_prim, t, v, w>>

\* The inputs of the Fiat - Shamir hash of BobProofExt.
BobExtTranscript(alice_ek, X, a_enc, mta_out, u, z, z_prim, t, v, w) ==
    <<alice_ek.n, alice_ek.n + 1, x_coor(X), y_coor(X), a_enc, mta_out,
      x_coor(u), y_coor(u), z, z_prim, t, v, w>>

BobProof_from(round1, e, round2) ==
    [t |-> round1.t, v |-> round1.v, w |-> round1.w, z |-> round1.z,
     z_prim |-> round1.z_prim, e |-> e, s |-> round2.s, s1 |-> round2.s1,
     s2 |-> round2.s2, t1 |-> round2.t1, t2 |-> round2.t2]

\* BobProof::generate: the proofs it can return; inits are the values
\* BobZkpInit::random can draw.
BobProof_generate(a_encrypted, mta_encrypted, b, beta_prim, alice_ek, alice_setup, r, q, inits) ==
    UNION {
        LET round1 == BobZkpRound1_from(init, alice_ek, alice_setup, b, beta_prim, a_encrypted)
        IN {BobProof_from(round1, e, BobZkpRound2_from(init, alice_ek, e[1], b, beta_prim, r)) :
            e \in create_hash_with_random_nonce(
                    BobTranscript(alice_ek, a_encrypted, mta_encrypted, round1.z,
                                  round1.z_prim, round1.t, round1.v, round1.w))} :
        init \in inits}

\* BobProofExt::generate: the proofs it can return; inits are the values
\* BobZkpInit::random can draw.
BobProofExt_generate(a_encrypted, mta_encrypted, b, beta_prim, alice_ek, alice_setup, r, q, inits) ==
    UNION {
        LET X == PointMul(ECPoint_generator, b)
            u == PointMul(ECPoint_generator, ECScalar_from(init.alpha))
            round1 == BobZkpRound1_from(init, alice_ek, alice_setup, b, beta_prim, a_encrypted)
        IN {[proof |-> BobProof_from(round1, e,
                          BobZkpRound2_from(init, alice_ek, e[1], b, beta_prim, r)),
             u |-> u, X |-> X] :
            e \in create_hash_with_random_nonce(
                    BobExtTranscript(alice_ek, X, a_encrypted, mta_encrypted, u, round1.z,
                                     round1.z_prim, round1.t, round1.v, round1.w))} :
        init \in inits}

BobProof_verify_with_hash_NoRange(proof, e, a_enc, mta_avc_out, alice_ek, alice_setup) ==
    LET N == alice_ek.n
        NN == alice_ek.nn
        N_tilda == alice_setup.N_tilda
        h1 == alice_setup.h1
        h2 == alice_setup.h2
        lz == Rem(powm(h1, proof.s1, N_tilda) * powm(h2, proof.s2, N_tilda), N_tilda)
        rz == Rem(powm(proof.z, e[1], N_tilda) * proof.z_prim, N_tilda)
        lc1 == Rem(Rem(powm(a_enc, proof.s1, NN) * powm(proof.s, N, NN), NN)
                   * (proof.t1 * N + 1), NN)
        lc2 == Rem(powm(mta_avc_out, e[1], NN) * proof.v, NN)
        lw == Rem(powm(h1, proof.t1, N_tilda) * powm(h2, proof.t2, N_tilda), N_tilda)
        rw == Rem(powm(proof.t, e[1], N_tilda) * proof.w, N_tilda)
    IN IF e # proof.e THEN "false"
       ELSE IF powmAborts(h1, proof.s1, N_tilda) \/ powmAborts(h2, proof.s2, N_tilda)
            THEN "abort"
       ELSE IF lz # rz THEN "false"
       ELSE IF powmAborts(a_enc, proof.s1, NN) THEN "abort"
       ELSE IF lc1 # lc2 THEN "false"
       ELSE IF powmAborts(h1, proof.t1, N_tilda) \/ powmAborts(h2, proof.t2, N_tilda)
            THEN "abort"
       ELSE IF lw # rw THEN "false"
       ELSE "true"

BobProof_verify_with_hash_NoHash(proof, e, a_enc, mta_avc_out, alice_ek, alice_setup) ==
    LET N == alice_ek.n
        NN == alice_ek.nn
        N_tilda == alice_setup.N_tilda
        h1 == alice_setup.h1
        h2 == alice_setup.h2
        lz == Rem(powm(h1, proof.s1, N_tilda) * powm(h2, proof.s2, N_tilda), N_tilda)
        rz == Rem(powm(proof.z, e[1], N_tilda) * proof.z_prim, N_tilda)
        lc1 == Rem(Rem(powm(a_enc, proof.s1, NN) * powm(proof.s, N, NN), NN)
                   * (proof.t1 * N + 1), NN)
        lc2 == Rem(powm(mta_avc_out, e[1], NN) * proof.v, NN)
        lw == Rem(powm(h1, proof.t1, N_tilda) * powm(h2, proof.t2, N_tilda), N_tilda)
        rw == Rem(powm(proof.t, e[1], N_tilda) * proof.w, N_tilda)
    IN IF proof.s1 > q3 THEN "false"
       ELSE IF powmAborts(h1, proof.s1, N_tilda) \/ powmAborts(h2, proof.s2, N_tilda)
            THEN "abort"
       ELSE IF lz # rz THEN "false"
       ELSE IF powmAborts(a_enc, proof.s1, NN) THEN "abort"
       ELSE IF lc1 # lc2 THEN "false"
       ELSE IF powmAborts(h1, proof.t1, N_tilda) \/ powmAborts(h2, proof.t2, N_tilda)
            THEN "abort"
       ELSE IF lw # rw THEN "false"
       ELSE "true"

BobProof_verify_with_hash_UsesAlpha(proof, e, a_enc, mta_avc_out, alice_ek, alice_setup) ==
    LET N == alice_ek.n
        NN == alice_ek.nn
        N_tilda == alice_setup.N_tilda
        h1 == alice_setup.h1
        h2 == powm(alice_setup.h1, alice_setup.alpha, alice_setup.N_tilda)
        lz == Rem(powm(h1, proof.s1, N_tilda) * powm(h2, proof.s2, N_tilda), N_tilda)
        rz == Rem(powm(proof.z, e[1], N_tilda) * proof.z_prim, N_tilda)
        lc1 == Rem(Rem(powm(a_enc, proof.s1, NN) * powm(proof.s, N, NN), NN)
                   * (proof.t1 * N + 1), NN)
        lc2 == Rem(powm(mta_avc_out, e[1], NN) * proof.v, NN)
        lw == Rem(powm(h1, proof.t1, N_tilda) * powm(h2, proof.t2, N_tilda), N_tilda)
        rw == Rem(powm(proof.t, e[1], N_tilda) * proof.w, N_tilda)
    IN IF e # proof.e THEN "false"
       ELSE IF proof.s1 > q3 THEN "false"
       ELSE IF powmAborts(h1, proof.s1, N_tilda) \/ powmAborts(h2, proof.s2, N_tilda)
            THEN "abort"
       ELSE IF lz # rz THEN "false"
       ELSE IF powmAborts(a_enc, proof.s1, NN) THEN "abort"
       ELSE IF lc1 # lc2 THEN "false"
       ELSE IF powmAborts(h1, proof.t1, N_tilda) \/ powmAborts(h2, proof.t2, N_tilda)
            THEN "abort"
       ELSE IF lw # rw THEN "false"
       ELSE "true"

\* BobProof::verify_with_hash: "true", "false", or "abort" when powm divides by
\* zero.
BobProof_verify_with_hash(proof, e, a_enc, mta_avc_out, alice_ek, alice_setup) ==
    LET N == alice_ek.n
        NN == alice_ek.nn
        N_tilda == alice_setup.N_tilda
        h1 == alice_setup.h1
        h2 == alice_setup.h2
        lz == Rem(powm(h1, proof.s1, N_tilda) * powm(h2, proof.s2, N_tilda), N_tilda)
        rz == Rem(powm(proof.z, e[1], N_tilda) * proof.z_prim, N_tilda)
        lc1 == Rem(Rem(powm(a_enc, proof.s1, NN) * powm(proof.s, N, NN), NN)
                   * (proof.t1 * N + 1), NN)
        lc2 == Rem(powm(mta_avc_out, e[1], NN) * proof.v, NN)
        lw == Rem(powm(h1, proof.t1, N_tilda) * powm(h2, proof.t2, N_tilda), N_tilda)
        rw == Rem(powm(proof.t, e[1], N_tilda) * proof.w, N_tilda)
    IN IF e # proof.e THEN "false"
       ELSE IF proof.s1 > q3 THEN "false"
       ELSE IF powmAborts(h1, proof.s1, N_tilda) \/ powmAborts(h2, proof.s2, N_tilda)
            THEN "abort"
       ELSE IF lz # rz THEN "false"
       ELSE IF powmAborts(a_enc, proof.s1, NN) THEN "abort"
       ELSE IF lc1 # lc2 THEN "false"
       ELSE IF powmAborts(h1, proof.t1, N_tilda) \/ powmAborts(h2, proof.t2, N_tilda)
            THEN "abort"
       ELSE IF lw # rw THEN "false"
       ELSE "true"

\* BobProof::verify
BobProof_verify(proof, a_enc, mta_avc_out, alice_ek, alice_setup) ==
    LET e == create_hash_with_nonce(
                BobTranscript(alice_ek, a_enc, mta_avc_out, proof.z, proof.z_prim,
                              proof.t, proof.v, proof.w), proof.e[2])
    IN BobProof_verify_with_hash(proof, e, a_enc, mta_avc_out, alice_ek, alice_setup)

\* BobProofExt::verify
BobProofExt_verify(ext, a_enc, mta_avc_out, alice_ek, alice_zkp_setup) ==
    LET e == create_hash_with_nonce(
                BobExtTranscript(alice_ek, ext.X, a_enc, mta_avc_out, ext.u, ext.proof.z,
                                 ext.proof.z_prim, ext.proof.t, ext.proof.v, ext.proof.w),
                ext.proof.e[2])
        basic == BobProof_verify_with_hash(ext.proof, e, a_enc, mta_avc_out, alice_ek,
                                           alice_zkp_setup)
        x1 == PointMul(ECPoint_generator, ECScalar_from(ext.proof.s1))
        x2 == PointAdd(PointMul(ext.X, ECScalar_from(ext.proof.e[1])), ext.u)
    IN IF basic # "true" THEN basic
       ELSE IF x1 # x2 THEN "false"
       ELSE "true"

(***************************************************************************)
(* MessageB                                                                *)
(***************************************************************************)
\* DLogProof::prove(x): a proof of knowledge of the discrete log of pk = g x.
DLogProof_prove(x) == [pk |-> PointMul(ECPoint_generator, x)]

NoMessageB == [c |-> 0, kind |-> "none", proof |-> NoBobProof, u |-> 0, X |-> 0,
               b_proof |-> DLogProof_prove(0), beta_tag_proof |-> DLogProof_prove(0)]

MessageB_beta_Plus(beta_prim) == ECScalar_from(beta_prim)

\* The scalar MessageB::new returns: FE::zero().sub(beta_prim_fe).
MessageB_beta(beta_prim) == (0 - ECScalar_from(beta_prim)) % FE_q

MessageB_mta_out_NoAdd(alice_ek, alice_c, b, beta_prim, r) ==
    Paillier_mul(alice_ek, alice_c, b)

\* The ciphertext of MessageB::new: E(a) * b + E(beta_prim).
MessageB_mta_out(alice_ek, alice_c, b, beta_prim, r) ==
    Paillier_add(alice_ek, Paillier_mul(alice_ek, alice_c, b),
                 encrypt_with_chosen_randomness(alice_ek, beta_prim, r))

MessageB_new_IgnoresMode(b, alice_ek, alice_zkp_setup, alice_msg, mta_mode, beta_prim, r, inits) ==
    LET alice_c == alice_msg.c
        mta_out == MessageB_mta_out(alice_ek, alice_c, b, beta_prim, r)
        beta_prim_fe == ECScalar_from(beta_prim)
        beta == MessageB_beta(beta_prim)
    IN IF alice_zkp_setup.some
       THEN {<<[NoMessageB EXCEPT !.c = mta_out, !.kind = "RangeProof", !.proof = p], beta>> :
               p \in BobProof_generate(alice_c, mta_out, b, beta_prim, alice_ek,
                                       alice_zkp_setup.val, r, FE_q, inits)}
       ELSE {<<[NoMessageB EXCEPT !.c = mta_out, !.kind = "DLogProofs",
                                  !.b_proof = DLogProof_prove(b),
                                  !.beta_tag_proof = DLogProof_prove(beta_prim_fe)], beta>>}

\* MessageB::new, given the beta_prim and the randomness r it draws and the
\* values inits that BobZkpInit::random can draw: the (MessageB, beta) pairs it
\* can return.  mta_mode is "MtA" or "MtAwc".
MessageB_new(b, alice_ek, alice_zkp_setup, alice_msg, mta_mode, beta_prim, r, inits) ==
    LET alice_c == alice_msg.c
        mta_out == MessageB_mta_out(alice_ek, alice_c, b, beta_prim, r)
        beta_prim_fe == ECScalar_from(beta_prim)
        beta == MessageB_beta(beta_prim)
    IN IF alice_zkp_setup.some
       THEN IF mta_mode = "MtA"
            THEN {<<[NoMessageB EXCEPT !.c = mta_out, !.kind = "RangeProof", !.proof = p], beta>> :
                    p \in BobProof_generate(alice_c, mta_out, b, beta_prim, alice_ek,
                                            alice_zkp_setup.val, r, FE_q, inits)}
            ELSE {<<[NoMessageB EXCEPT !.c = mta_out, !.kind = "RangeProofExt",
                                       !.proof = p.proof, !.u = p.u, !.X = p.X], beta>> :
                    p \in BobProofExt_generate(alice_c, mta_out, b, beta_prim, alice_ek,
                                               alice_zkp_setup.val, r, FE_q, inits)}
       ELSE {<<[NoMessageB EXCEPT !.c = mta_out, !.kind = "DLogProofs",
                                  !.b_proof = DLogProof_prove(b),
                                  !.beta_tag_proof = DLogProof_prove(beta_prim_fe)], beta>>}

(***************************************************************************)
(* State                                                                   *)
(***************************************************************************)
VARIABLES
    pc,        \* where the run is
    args,      \* what the callers pass: whether MessageA::new and MessageB::new
               \* are given the peer's setup, and the MTAMode
    primes,    \* the local `primes` of ZkpSetup::random, as the call left it
    setup,     \* the verifier's private ZkpSetup
    pubsetup,  \* its ZkpPublicSetup, which the prover holds
    setupRes,  \* what from_private_zkp_setup / ZkpPublicSetup::verify did
    ek,        \* Alice's Paillier public key
    wit,       \* the secrets of the run: a, r of MessageA; b, beta_prim, r of MessageB
    msgA,      \* the MessageA in flight
    msgB,      \* the MessageB in flight
    beta,      \* the scalar MessageB::new returned with it
    tampered,  \* the field an adversary replaced in flight, and what it held
    res,       \* what the range proof's verifier returned
    mem        \* what the locals that held secrets hold once their call returned

vars == <<pc, args, primes, setup, pubsetup, setupRes, ek, wit, msgA, msgB, beta,
          tampered, res, mem>>

NoWit == [a |-> 0, r |-> 0, b |-> 0, beta_prim |-> 0, rB |-> 0]
NoTamper == [field |-> "none", was |-> 0]
\* BigInt::zeroize_bn overwrites the number with zero.
zeroize_bn(x) == 0

\* Zeroize for AliceZkpInit, which Drop calls: the ephemeral values.
AliceZkpInit_zeroize(init) ==
    [alpha |-> zeroize_bn(init.alpha), beta |-> zeroize_bn(init.beta),
     gamma |-> zeroize_bn(init.gamma), ro |-> zeroize_bn(init.ro)]

\* Zeroize for BobZkpInit, which Drop calls: the ephemeral values.
BobZkpInit_zeroize(init) ==
    [alpha |-> zeroize_bn(init.alpha), beta |-> zeroize_bn(init.beta),
     gamma |-> zeroize_bn(init.gamma), ro |-> zeroize_bn(init.ro),
     ro_prim |-> zeroize_bn(init.ro_prim), sigma |-> zeroize_bn(init.sigma),
     tau |-> zeroize_bn(init.tau)]

\* Zeroize for ZkpSetup, which Drop calls.
ZkpSetup_zeroize(s) ==
    [p |-> zeroize_bn(s.p), q |-> zeroize_bn(s.q), order |-> zeroize_bn(s.order),
     alpha |-> zeroize_bn(s.alpha), N_tilda |-> zeroize_bn(s.N_tilda),
     h1 |-> zeroize_bn(s.h1), h2 |-> zeroize_bn(s.h2)]

\* No call has run: nothing holds a secret.
NoMem == [v |-> 0, r_A |-> 0, alice_init |-> [alpha |-> 0, beta |-> 0, gamma |-> 0, ro |-> 0],
          r_B |-> 0,
          bob_init |-> [alpha |-> 0, beta |-> 0, gamma |-> 0, ro |-> 0, ro_prim |-> 0,
                        sigma |-> 0, tau |-> 0]]

AllArgs == [bob_setup : BOOLEAN, alice_setup : BOOLEAN, mta_mode : {"MtA", "MtAwc"}]

(***************************************************************************)
(* Setup: ZkpSetup::random, from_private_zkp_setup, verify                 *)
(***************************************************************************)
Init ==
    /\ pc = "fresh"
    /\ args \in AllArgs
    /\ primes = ZeroPrimes
    /\ setup = NoSetup
    /\ pubsetup = NoPublicSetup
    /\ setupRes = "none"
    /\ ek \in EncryptionKeys
    /\ wit = NoWit
    /\ msgA = NoMessageA
    /\ msgB = NoMessageB
    /\ beta = 0
    /\ tampered = NoTamper
    /\ res = "none"
    /\ mem = NoMem

\* ZkpSetup::random(group_order_bit_length)
ZkpSetupRandom ==
    /\ pc = "fresh"
    /\ \E pr \in SafePrimePool :
         \E b0 \in sample_generator_of_rsa_group(pr.p, pr.q) :
           \E alpha \in sample_range(1, pr.p_prim * pr.q_prim) :
             /\ setup' = ZkpSetup_random(pr, b0, alpha)
             /\ primes' = zeroize(pr)
    /\ pc' = "generated"
    /\ UNCHANGED <<args, pubsetup, setupRes, ek, wit, msgA, msgB, beta, tampered, res, mem>>

\* ZkpPublicSetup::from_private_zkp_setup(&setup)
FromPrivateZkpSetup ==
    /\ pc = "generated"
    /\ IF from_private_panics(setup)
       THEN /\ pc' = "panicked"
            /\ setupRes' = "alpha non invertible"
            /\ UNCHANGED <<pubsetup, mem>>
       ELSE /\ \E v1 \in sample_range(1, setup.N_tilda - 1) :
                 \E v2 \in sample_range(1, setup.N_tilda - 1) :
                   /\ pubsetup' = from_private_zkp_setup(setup, v1, v2)
                   /\ mem' = [mem EXCEPT !.v = zeroize_bn(v2)]
            /\ pc' = "published"
            /\ UNCHANGED setupRes
    /\ UNCHANGED <<args, primes, setup, ek, wit, msgA, msgB, beta, tampered, res>>

\* ZkpPublicSetup::verify(): Ok, an error, or the abort of the process.
VerifySetup ==
    /\ pc = "published"
    /\ setupRes' = ZkpPublicSetup_verify(pubsetup)
    /\ pc' = IF setupRes' = "Ok" THEN "ready"
             ELSE IF setupRes' = "abort" THEN "aborted" ELSE "rejected"
    /\ UNCHANGED <<args, primes, setup, pubsetup, ek, wit, msgA, msgB, beta, tampered, res, mem>>

\* Drop for ZkpSetup: the owner lets go of its private setup.
DropZkpSetup ==
    /\ pc \in {"panicked", "ready", "rejected"}
    /\ setup' = ZkpSetup_zeroize(setup)
    /\ pc' = "dropped"
    /\ UNCHANGED <<args, primes, pubsetup, setupRes, ek, wit, msgA, msgB, beta, tampered, res,
                   mem>>

NextSetup == ZkpSetupRandom \/ FromPrivateZkpSetup \/ VerifySetup

SpecSetup == Init /\ [][NextSetup]_vars

(***************************************************************************)
(* MessageA and MessageB, and their verification                           *)
(***************************************************************************)
\* The setups a party holds once its peer's ZkpPublicSetup::verify accepted
\* them: for each pair of the pool, the one with the least generator and the
\* least invertible alpha above 1.
PeerSetup(pr) ==
    LET G == sample_generator_of_rsa_group(pr.p, pr.q)
        order == pr.p_prim * pr.q_prim
        A == {x \in 2 .. order - 1 : gcd(x, order) = 1}
    IN ZkpSetup_random(pr, CHOOSE h \in G : \A g \in G : h <= g,
                       CHOOSE x \in A : \A y \in A : x <= y)

PeerSetups == {PeerSetup(pr) : pr \in SafePrimePool}

InitReady(Args) ==
    /\ pc = "ready"
    /\ args \in Args
    /\ primes = ZeroPrimes
    /\ setup \in PeerSetups
    /\ pubsetup = from_private_zkp_setup(setup, 1, 1)
    /\ setupRes = "Ok"
    /\ ek \in EncryptionKeys
    /\ wit = NoWit
    /\ msgA = NoMessageA
    /\ msgB = NoMessageB
    /\ beta = 0
    /\ tampered = NoTamper
    /\ res = "none"
    /\ mem = NoMem

\* MessageA::new(a, alice_pk, bob_setup): the call takes any ZkpPublicSetup the
\* caller holds, whatever ZkpPublicSetup::verify returned for it.
MessageANew ==
    /\ pc \in {"ready", "rejected"}
    /\ \E a \in 0 .. FE_q - 1 :
         \E r \in from_modulo(ek.n) :
           /\ msgA' \in MessageA_new(a, ek, IF args.bob_setup THEN Some(pubsetup) ELSE None, r,
                                      AliceZkpInit_random(ek, pubsetup, FE_q))
           /\ wit' = [wit EXCEPT !.a = a, !.r = r]
           /\ mem' = [mem EXCEPT !.r_A = zeroize_bn(r),
                                 !.alice_init = AliceZkpInit_zeroize(@)]
    /\ pc' = "a_sent"
    /\ UNCHANGED <<args, primes, setup, pubsetup, setupRes, ek, msgB, beta, tampered, res>>

\* Bob: AliceProof::verify(&msgA.c, &alice_ek, &bob_setup)
AliceVerify ==
    /\ pc = "a_sent"
    /\ msgA.range_proof.some
    /\ res' = AliceProof_verify(msgA.range_proof.val, msgA.c, ek, setup)
    /\ pc' = "a_verified"
    /\ UNCHANGED <<args, primes, setup, pubsetup, setupRes, ek, wit, msgA, msgB, beta, tampered, mem>>

\* MessageB::new(b, alice_ek, alice_zkp_setup, &msgA, mta_mode)
MessageBNew ==
    /\ pc = "a_sent"
    /\ ~msgA.range_proof.some
    /\ \E b \in 0 .. FE_q - 1 :
         \E beta_prim \in sample_range(0, ek.n) :
           \E r \in Randomness_sample(ek) :
             \E out \in MessageB_new(b, ek, IF args.alice_setup THEN Some(pubsetup) ELSE None,
                                     msgA, args.mta_mode, beta_prim, r,
                                     BobZkpInit_random(ek, pubsetup, FE_q)) :
               /\ msgB' = out[1]
               /\ beta' = out[2]
               /\ wit' = [wit EXCEPT !.b = b, !.beta_prim = beta_prim, !.rB = r]
               /\ mem' = [mem EXCEPT !.r_B = r, !.bob_init = BobZkpInit_zeroize(@)]
    /\ pc' = "b_sent"
    /\ UNCHANGED <<args, primes, setup, pubsetup, setupRes, ek, msgA, tampered, res>>

\* Alice: BobProof::verify or BobProofExt::verify (&msgA.c, &msgB.c, alice_ek,
\* &alice_setup), by the variant of the proof.
BobVerify ==
    /\ pc = "b_sent"
    /\ msgB.kind \in {"RangeProof", "RangeProofExt"}
    /\ res' = IF msgB.kind = "RangeProof"
              THEN BobProof_verify(msgB.proof, msgA.c, msgB.c, ek, setup)
              ELSE BobProofExt_verify([proof |-> msgB.proof, u |-> msgB.u, X |-> msgB.X],
                                      msgA.c, msgB.c, ek, setup)
    /\ pc' = "b_verified"
    /\ UNCHANGED <<args, primes, setup, pubsetup, setupRes, ek, wit, msgA, msgB, beta, tampered, mem>>

NextAlice == MessageANew \/ AliceVerify

NextBob == MessageANew \/ MessageBNew \/ BobVerify

Next == NextSetup \/ DropZkpSetup \/ NextAlice \/ NextBob

Spec == Init /\ [][Next]_vars

\* Alice sends MessageA with a range proof and Bob verifies it.
InitAlice == InitReady({x \in AllArgs : x.bob_setup /\ x.alice_setup /\ x.mta_mode = "MtA"})
SpecAlice == InitAlice /\ [][NextAlice]_vars

\* Bob answers a MessageA with a MessageB in mode MtA and Alice verifies it.
InitBob == InitReady({x \in AllArgs : ~x.bob_setup /\ x.alice_setup /\ x.mta_mode = "MtA"})
SpecBob == InitBob /\ [][NextBob]_vars

\* The same in mode MtAwc.
InitBobExt == InitReady({x \in AllArgs : ~x.bob_setup /\ x.alice_setup /\ x.mta_mode = "MtAwc"})
SpecBobExt == InitBobExt /\ [][NextBob]_vars

(***************************************************************************)
(* An adversary in the channel: one field of the message in flight is      *)
(* replaced before the verifier sees it                                    *)
(***************************************************************************)
AliceFields == {"c", "z", "u", "w", "e", "nonce", "s", "s1", "s2"}
BobFields == {"c", "t", "v", "w", "z", "z_prim", "e", "nonce", "s", "s1", "s2", "t1", "t2"}
ExtFields == {"u", "X"}
\* The fields the verifier hashes, and the nonce it hashes them with.
HashedFields == {"c", "z", "u", "w", "t", "v", "z_prim", "X", "nonce"}

GetA(m, f) ==
    IF f = "c" THEN m.c
    ELSE IF f = "e" THEN m.range_proof.val.e[1]
    ELSE IF f = "nonce" THEN m.range_proof.val.e[2]
    ELSE m.range_proof.val[f]

SetA(m, f, x) ==
    IF f = "c" THEN [m EXCEPT !.c = x]
    ELSE IF f = "e" THEN [m EXCEPT !.range_proof.val.e[1] = x]
    ELSE IF f = "nonce" THEN [m EXCEPT !.range_proof.val.e[2] = x]
    ELSE [m EXCEPT !.range_proof.val[f] = x]

GetB(m, f) ==
    IF f \in {"c", "u", "X"} THEN m[f]
    ELSE IF f = "e" THEN m.proof.e[1]
    ELSE IF f = "nonce" THEN m.proof.e[2]
    ELSE m.proof[f]

SetB(m, f, x) ==
    IF f \in {"c", "u", "X"} THEN [m EXCEPT ![f] = x]
    ELSE IF f = "e" THEN [m EXCEPT !.proof.e[1] = x]
    ELSE IF f = "nonce" THEN [m EXCEPT !.proof.e[2] = x]
    ELSE [m EXCEPT !.proof[f] = x]

\* A common multiple of the orders the verifier's equations reduce the
\* responses by: N lambda for the units modulo N^2, the orders of h1 and h2
\* modulo N_tilda, and the order of the curve.
Period ==
    lcmAll(<<ek.n * Paillier_lambda(ek), Order(setup.h1, setup.N_tilda),
             Order(setup.h2, setup.N_tilda), FE_q>>)

\* What the adversary puts in place of the value x of field f: another
\* challenge, nonce or point, or x moved by one, by N, by the order of h2, by
\* Period, or to q^3 + 1.
Replacements(f, x) ==
    (IF f = "e" THEN 0 .. HashMod - 1
     ELSE IF f = "nonce" THEN Nonces
     ELSE IF f \in ExtFields THEN 0 .. FE_q - 1
     ELSE {x + d : d \in {1, ek.n, Order(setup.h2, setup.N_tilda), Period}}
          \cup {x - d : d \in {1, ek.n, Order(setup.h2, setup.N_tilda), Period}}
          \cup {q3 + 1}) \ {x}

\* The adversary replaces one field of the MessageA in flight.
TamperAlice ==
    /\ pc = "a_sent"
    /\ msgA.range_proof.some
    /\ tampered.field = "none"
    /\ \E f \in AliceFields :
         \E x \in Replacements(f, GetA(msgA, f)) :
           /\ msgA' = SetA(msgA, f, x)
           /\ tampered' = [field |-> f, was |-> GetA(msgA, f)]
    /\ UNCHANGED <<pc, args, primes, setup, pubsetup, setupRes, ek, wit, msgB, beta, res, mem>>

\* The adversary replaces one field of the MessageB in flight.
TamperBob ==
    /\ pc = "b_sent"
    /\ msgB.kind \in {"RangeProof", "RangeProofExt"}
    /\ tampered.field = "none"
    /\ \E f \in BobFields \cup (IF msgB.kind = "RangeProofExt" THEN ExtFields ELSE {}) :
         \E x \in Replacements(f, GetB(msgB, f)) :
           /\ msgB' = SetB(msgB, f, x)
           /\ tampered' = [field |-> f, was |-> GetB(msgB, f)]
    /\ UNCHANGED <<pc, args, primes, setup, pubsetup, setupRes, ek, wit, msgA, beta, res, mem>>

\* Of the values a ZkpInit can draw: alpha at the bottom of its range and
\* every other value at the top.
TamperDraws(inits) ==
    {i \in inits : /\ i.alpha = 0
                   /\ \A j \in inits : \A f \in DOMAIN i : f # "alpha" => i[f] >= j[f]}

\* An honest message is in flight: a MessageA with its range proof, or a
\* MessageB answering a MessageA, made with ephemeral values of TamperDraws.
InitTamper ==
    /\ pc \in {"a_sent", "b_sent"}
    /\ args \in {x \in AllArgs : /\ x.alice_setup
                                 /\ x.bob_setup = (pc = "a_sent")
                                 /\ (pc = "a_sent" => x.mta_mode = "MtA")}
    /\ primes = ZeroPrimes
    /\ setup \in PeerSetups
    /\ pubsetup = from_private_zkp_setup(setup, 1, 1)
    /\ setupRes = "Ok"
    /\ ek \in EncryptionKeys
    /\ wit \in [a : 0 .. FE_q - 1, r : from_modulo(ek.n),
                b : IF pc = "a_sent" THEN {0} ELSE 0 .. FE_q - 1,
                beta_prim : IF pc = "a_sent" THEN {0} ELSE sample_below(ek.n),
                rB : IF pc = "a_sent" THEN {0} ELSE {x \in Randomness_sample(ek) : x > 1}]
    /\ msgA \in MessageA_new(wit.a, ek, IF args.bob_setup THEN Some(pubsetup) ELSE None, wit.r,
                             TamperDraws(AliceZkpInit_random(ek, pubsetup, FE_q)))
    /\ IF pc = "a_sent"
       THEN msgB = NoMessageB /\ beta = 0
       ELSE \E out \in MessageB_new(wit.b, ek, Some(pubsetup), msgA, args.mta_mode,
                                    wit.beta_prim, wit.rB,
                                    TamperDraws(BobZkpInit_random(ek, pubsetup, FE_q))) :
              msgB = out[1] /\ beta = out[2]
    /\ tampered = NoTamper
    /\ res = "none"
    /\ mem = [NoMem EXCEPT !.r_B = wit.rB]

NextTamper == TamperAlice \/ TamperBob \/ AliceVerify \/ BobVerify

SpecTamper == InitTamper /\ [][NextTamper]_vars

(***************************************************************************)
(* An adversary as the prover: the verifier is handed ciphertexts and a    *)
(* proof that no honest party made                                         *)
(***************************************************************************)
\* The ciphertexts the adversary sends: zero, one, the non-unit N, and the
\* encryption N + 1 of one.
ForgedCiphertexts == {0, 1, ek.n, ek.n + 1}

\* The responses the adversary sends.
ForgedResponses == {-1, 0, 1}

\* Proofs of an adversary who takes z = 1, solves the first equation of the
\* verifier for the commitment, and hashes as the verifier will.
ForgedAliceProofs(cipher) ==
    {[z |-> 1,
      u |-> 1,
      w |-> Rem(powm(setup.h1, s1, setup.N_tilda) * powm(setup.h2, s2, setup.N_tilda),
                setup.N_tilda),
      e |-> create_hash_with_nonce(
                AliceTranscript(ek, cipher, 1, 1,
                    Rem(powm(setup.h1, s1, setup.N_tilda) * powm(setup.h2, s2, setup.N_tilda),
                        setup.N_tilda)), nonce),
      s |-> s, s1 |-> s1, s2 |-> s2] :
        s \in ForgedResponses, s1 \in ForgedResponses, s2 \in ForgedResponses,
        nonce \in Nonces}

ForgedBobProofs(a_enc, mta_out, ext, X, u) ==
    {[t |-> 1, v |-> 1, w |-> 1, z |-> 1,
      z_prim |-> Rem(powm(setup.h1, s1, setup.N_tilda) * powm(setup.h2, s2, setup.N_tilda),
                     setup.N_tilda),
      e |-> create_hash_with_nonce(
                LET zp == Rem(powm(setup.h1, s1, setup.N_tilda)
                              * powm(setup.h2, s2, setup.N_tilda), setup.N_tilda)
                IN IF ext THEN BobExtTranscript(ek, X, a_enc, mta_out, u, 1, zp, 1, 1, 1)
                   ELSE BobTranscript(ek, a_enc, mta_out, 1, zp, 1, 1, 1), nonce),
      s |-> 1, s1 |-> s1, s2 |-> s2, t1 |-> t1, t2 |-> 0] :
        s1 \in ForgedResponses, s2 \in ForgedResponses, t1 \in ForgedResponses,
        nonce \in Nonces}

\* The verifier holds a message of the adversary.
InitForge ==
    /\ pc \in {"a_sent", "b_sent"}
    /\ args \in {x \in AllArgs : /\ x.alice_setup
                                 /\ x.bob_setup = (pc = "a_sent")
                                 /\ (pc = "a_sent" => x.mta_mode = "MtA")}
    /\ primes = ZeroPrimes
    /\ setup \in PeerSetups
    /\ pubsetup = from_private_zkp_setup(setup, 1, 1)
    /\ setupRes = "Ok"
    /\ ek \in EncryptionKeys
    /\ wit = NoWit
    /\ \E c1 \in ForgedCiphertexts :
         IF pc = "a_sent"
         THEN /\ \E proof \in ForgedAliceProofs(c1) :
                   msgA = [c |-> c1, range_proof |-> Some(proof)]
              /\ msgB = NoMessageB
         ELSE /\ msgA = [NoMessageA EXCEPT !.c = c1]
              /\ \E c2 \in ForgedCiphertexts :
                   \E X \in {0, 1} : \E u \in {0, 1} :
                     \E proof \in ForgedBobProofs(c1, c2, args.mta_mode = "MtAwc", X, u) :
                       msgB = IF args.mta_mode = "MtAwc"
                              THEN [NoMessageB EXCEPT !.c = c2, !.kind = "RangeProofExt",
                                                      !.proof = proof, !.u = u, !.X = X]
                              ELSE [NoMessageB EXCEPT !.c = c2, !.kind = "RangeProof",
                                                      !.proof = proof]
    /\ beta = 0
    /\ tampered = NoTamper
    /\ res = "none"
    /\ mem = NoMem

NextForge == AliceVerify \/ BobVerify

SpecForge == InitForge /\ [][NextForge]_vars

(***************************************************************************)
(* Properties of the setup                                                 *)
(***************************************************************************)
\* C4: every setup ZkpSetup::random produces, whatever alpha it drew from
\* [1, order), is published by from_private_zkp_setup and accepted by
\* ZkpPublicSetup::verify.
C4_SetupSoundness ==
    /\ pc # "panicked"
    /\ pc \in {"ready", "rejected"} => setupRes = "Ok"

\* A setup whose alpha is invertible modulo the order is published and
\* accepted: the only failure of C4 is the panic.
SetupAcceptedWhenPublished == pc # "rejected"

Untampered == tampered.field = "none"

\* C1: for every plaintext a in [0, q), randomness r and ephemeral values,
\* the proof MessageA::new attaches is accepted by AliceProof::verify under
\* the matching setup.
C1_AliceCompleteness ==
    (pc = "a_verified" /\ Untampered) => res = "true"

\* C1, amended: the proof of an honest Alice is accepted exactly when its
\* response s1 = e * a + alpha does not exceed q^3.
C1_AliceCompletenessWithinRange ==
    (pc = "a_verified" /\ Untampered) =>
        /\ msgA.range_proof.val.s1 - msgA.range_proof.val.e[1] * wit.a \in 0 .. q3 - 1
        /\ res = (IF msgA.range_proof.val.s1 <= q3 THEN "true" ELSE "false")

C1_Witness ==
    /\ pc = "a_verified" /\ Untampered
    /\ wit.a > 0
    /\ msgA.range_proof.val.e[1] > 0
    /\ msgA.range_proof.val.s1 > msgA.range_proof.val.e[1] * wit.a
    /\ msgA.range_proof.val.s1 <= q3
    /\ res = "true"

\* The message in flight is an honest MessageB carrying a range proof.
HonestB == pc \in {"b_sent", "b_verified"} /\ Untampered

\* C2: for every b in [0, q), beta_prim in [0, N) and ephemeral values, the
\* proof MessageB::new attaches in mode MtA is accepted by BobProof::verify.
C2_BobCompleteness ==
    (pc = "b_verified" /\ Untampered /\ msgB.kind = "RangeProof") => res = "true"

\* C2, amended: the proof of an honest Bob in mode MtA is accepted exactly
\* when its response s1 = e * b + alpha does not exceed q^3.
C2_BobCompletenessWithinRange ==
    (pc = "b_verified" /\ Untampered /\ msgB.kind = "RangeProof") =>
        /\ msgB.proof.s1 - msgB.proof.e[1] * wit.b \in 0 .. q3 - 1
        /\ res = (IF msgB.proof.s1 <= q3 THEN "true" ELSE "false")

C2_Witness ==
    /\ pc = "b_verified" /\ Untampered /\ msgB.kind = "RangeProof"
    /\ wit.b > 0 /\ wit.beta_prim > 0
    /\ msgB.proof.e[1] > 0
    /\ msgB.proof.s1 > msgB.proof.e[1] * wit.b
    /\ msgB.proof.s1 <= q3
    /\ res = "true"

\* C3: for every input as in C2, the proof MessageB::new attaches in mode
\* MtAwc is accepted by BobProofExt::verify, and its X is g * b.
C3_BobExtCompleteness ==
    (pc = "b_verified" /\ Untampered /\ msgB.kind = "RangeProofExt") =>
        /\ res = "true"
        /\ msgB.X = PointMul(ECPoint_generator, wit.b)

\* C3, amended: the proof of an honest Bob in mode MtAwc carries X = g * b and
\* u = g * alpha, and is accepted exactly when its response
\* s1 = e * b + alpha does not exceed q^3.
C3_BobExtCompletenessWithinRange ==
    (pc = "b_verified" /\ Untampered /\ msgB.kind = "RangeProofExt") =>
        /\ msgB.X = PointMul(ECPoint_generator, wit.b)
        /\ msgB.u = PointMul(ECPoint_generator,
                             ECScalar_from(msgB.proof.s1 - msgB.proof.e[1] * wit.b))
        /\ msgB.proof.s1 - msgB.proof.e[1] * wit.b \in 0 .. q3 - 1
        /\ res = (IF msgB.proof.s1 <= q3 THEN "true" ELSE "false")

C3_Witness ==
    /\ pc = "b_verified" /\ Untampered /\ msgB.kind = "RangeProofExt"
    /\ wit.b > 0 /\ wit.beta_prim > 0
    /\ msgB.proof.e[1] > 0
    /\ msgB.X # 0 /\ msgB.u # 0
    /\ msgB.proof.s1 <= q3
    /\ res = "true"

(***************************************************************************)
(* Properties of the MtA conversion                                        *)
(***************************************************************************)
\* C7: the ciphertext of an honest MessageB decrypts under Alice's key to
\* (a * b + beta_prim) mod N, and the scalar returned with it is
\* (- beta_prim) mod q.
C7_MtACorrectness ==
    HonestB =>
        /\ Paillier_decrypt(ek, msgB.c) = (wit.a * wit.b + wit.beta_prim) % ek.n
        /\ beta = (FE_q - (wit.beta_prim % FE_q)) % FE_q

C7_Witness ==
    /\ pc = "b_sent" /\ Untampered
    /\ wit.a > 0 /\ wit.b > 0
    /\ wit.beta_prim % FE_q # 0
    /\ wit.a * wit.b + wit.beta_prim >= ek.n
    /\ beta # 0

\* C8: with alpha_tilde Alice's decryption of the ciphertext of MessageB and
\* beta the scalar Bob keeps, beta + b * a = alpha_tilde modulo q.
C8_ShareRelation ==
    HonestB =>
        (beta + wit.b * wit.a) % FE_q = Paillier_decrypt(ek, msgB.c) % FE_q

\* C8, amended: alpha_tilde + beta = a * b modulo q, whenever
\* a * b + beta_prim stays below N.
C8_ShareRelationAdditive ==
    (HonestB /\ wit.a * wit.b + wit.beta_prim < ek.n) =>
        (Paillier_decrypt(ek, msgB.c) + beta) % FE_q = (wit.a * wit.b) % FE_q

C8_Witness ==
    /\ pc = "b_sent" /\ Untampered
    /\ wit.a > 0 /\ wit.b > 0
    /\ wit.beta_prim % FE_q # 0
    /\ wit.a * wit.b + wit.beta_prim < ek.n
    /\ beta # 0
    /\ Paillier_decrypt(ek, msgB.c) % FE_q # 0

(***************************************************************************)
(* Properties of the verifiers against an adversary                        *)
(***************************************************************************)
\* What the verifier of MessageA returns for mA.
VerdictA(mA) == AliceProof_verify(mA.range_proof.val, mA.c, ek, setup)

\* What the verifier of MessageB returns for mB answering mA.
VerdictB(mA, mB) ==
    IF mB.kind = "RangeProof"
    THEN BobProof_verify(mB.proof, mA.c, mB.c, ek, setup)
    ELSE BobProofExt_verify([proof |-> mB.proof, u |-> mB.u, X |-> mB.X], mA.c, mB.c, ek, setup)

\* The verifier has returned for a message of which one field was replaced.
TamperedAndVerified == pc \in {"a_verified", "b_verified"} /\ tampered.field # "none"

\* What the verifier returns for the message as its sender made it.
OriginalVerdict ==
    IF pc = "a_verified"
    THEN VerdictA(SetA(msgA, tampered.field, tampered.was))
    ELSE VerdictB(msgA, SetB(msgB, tampered.field, tampered.was))

\* The challenge in the message is the hash the verifier recomputes.
HashMatches ==
    IF pc = "a_verified"
    THEN LET p == msgA.range_proof.val
         IN p.e = create_hash_with_nonce(AliceTranscript(ek, msgA.c, p.z, p.u, p.w), p.e[2])
    ELSE LET p == msgB.proof
         IN p.e = create_hash_with_nonce(
                    IF msgB.kind = "RangeProof"
                    THEN BobTranscript(ek, msgA.c, msgB.c, p.z, p.z_prim, p.t, p.v, p.w)
                    ELSE BobExtTranscript(ek, msgB.X, msgA.c, msgB.c, msgB.u, p.z, p.z_prim,
                                          p.t, p.v, p.w), p.e[2])

\* The replaced field is hashed and the hash of the message did not change.
HashCollision == tampered.field \in HashedFields /\ HashMatches

\* The s1 the verifier was given.
GivenS1 == IF pc = "a_verified" THEN msgA.range_proof.val.s1 ELSE msgB.proof.s1

\* C6: the three verifiers return false for every proof whose s1 exceeds
\* q^3, also when every other check passes.
C6_RangeSoundness ==
    (pc \in {"a_verified", "b_verified"} /\ GivenS1 > q3) => res = "false"

\* s1 was replaced by a value above q^3 that passes the hash, the three
\* equations and the check on the curve, and the proof was rejected.
C6_Witness ==
    /\ pc = "b_verified" /\ msgB.kind = "RangeProofExt"
    /\ tampered.field = "s1"
    /\ msgB.proof.s1 > q3
    /\ HashMatches
    /\ BobProof_verify_with_hash_NoRange(msgB.proof, msgB.proof.e, msgA.c, msgB.c, ek, setup)
           = "true"
    /\ PointMul(ECPoint_generator, ECScalar_from(msgB.proof.s1))
           = PointAdd(PointMul(msgB.X, ECScalar_from(msgB.proof.e[1])), msgB.u)
    /\ res = "false"

\* The same for the verifier of Alice's proof.
C6_WitnessAlice ==
    /\ pc = "a_verified"
    /\ tampered.field = "s1"
    /\ GivenS1 > q3
    /\ AliceProof_verify_NoRange(msgA.range_proof.val, msgA.c, ek, setup) = "true"
    /\ res = "false"

C10_VerifyNeverAborts ==
    pc \in {"a_verified", "b_verified"} => res \in {"true", "false"}

\* The verifier of Alice's proof returns a boolean for every proof and
\* ciphertext when its own setup is honest.
AliceVerifyNeverAborts ==
    pc = "a_verified" => res \in {"true", "false"}

(***************************************************************************)
(* Scrubbing of secrets                                                    *)
(***************************************************************************)
\* The private setup from its creation to its drop.
SpecScrub == Init /\ [][NextSetup \/ DropZkpSetup]_vars

\* The locations the drops and the explicit zeroize_bn calls clear: the primes
\* of ZkpSetup::random, the dropped ZkpSetup, the ephemeral values of both
\* ZkpInit, the nonce v of dlog_proof, the r of MessageA::new.
ScrubbedByDropOrZeroize ==
    /\ primes = ZeroPrimes
    /\ pc = "dropped" => setup = NoSetup
    /\ mem.v = 0
    /\ mem.alice_init = NoMem.alice_init
    /\ mem.bob_init = NoMem.bob_init
    /\ mem.r_A = 0

\* C11: once the scope that owns it has exited, every location that held a
\* secret is zero: p, q, order, alpha of a dropped ZkpSetup, the ephemeral
\* values of AliceZkpInit and BobZkpInit, the nonce v of dlog_proof, and the
\* Paillier randomness r of MessageA::new and of MessageB::new.
C11_SecretScrubbing == ScrubbedByDropOrZeroize /\ mem.r_B = 0

\* MessageB::new has returned.
MessageBReturned == pc \in {"b_sent", "b_verified"}

(***************************************************************************)
(* The peer's setup as the verifying party receives it: published by an    *)
(* honest peer and possibly altered in flight                              *)
(***************************************************************************)
\* What an adversary puts in the place of h2.
CorruptedH2(pub) ==
    {x \in {0, 1, pub.h1, pub.h2 + 1, pub.N_tilda - pub.h2, pub.h2 + pub.N_tilda} : x # pub.h2}

\* The adversary swaps h2 of the published setup and leaves both proofs.
CorruptSetup ==
    /\ pc = "published"
    /\ tampered = NoTamper
    /\ \E x \in CorruptedH2(pubsetup) :
         /\ pubsetup' = [pubsetup EXCEPT !.h2 = x]
         /\ tampered' = [field |-> "h2", was |-> pubsetup.h2]
    /\ UNCHANGED <<pc, args, primes, setup, setupRes, ek, wit, msgA, msgB, beta, res, mem>>

\* A party holds the ZkpPublicSetup its peer published and is about to verify
\* it; it will send MessageA with a range proof.
InitPeer ==
    /\ pc = "published"
    /\ args \in {x \in AllArgs : x.bob_setup /\ x.alice_setup /\ x.mta_mode = "MtA"}
    /\ primes = ZeroPrimes
    /\ setup \in PeerSetups
    /\ \E v1 \in sample_range(1, setup.N_tilda - 1) :
         \E v2 \in sample_range(1, setup.N_tilda - 1) :
           pubsetup = from_private_zkp_setup(setup, v1, v2)
    /\ setupRes = "none"
    /\ ek \in EncryptionKeys
    /\ wit = NoWit
    /\ msgA = NoMessageA
    /\ msgB = NoMessageB
    /\ beta = 0
    /\ tampered = NoTamper
    /\ res = "none"
    /\ mem = NoMem

NextPeer == CorruptSetup \/ VerifySetup \/ MessageANew

SpecPeer == InitPeer /\ [][NextPeer]_vars

\* C12: once ZkpPublicSetup::verify has returned an error for a peer's setup,
\* the party produces no range proof against that setup; a range proof is
\* produced only against a setup whose verify() succeeded.
C12_SetupLifecycle ==
    (pc = "a_sent" /\ msgA.range_proof.some) => setupRes = "Ok"

(***************************************************************************)
(* The peer is the adversary: it publishes a ZkpPublicSetup of its choice  *)
(***************************************************************************)
\* The bases and the proofs an adversary attaches.
ForgedBases(N_tilda) == {0, 1, 4, N_tilda - 1}

ForgedSetupProofs(N_tilda) ==
    [V : {0, 1, 4, N_tilda - 1}, challenge : 0 .. HashMod - 1, r : {-1, 0, 1}]

\* A party holds a ZkpPublicSetup made by the adversary and is about to verify it.
InitForgeSetup ==
    /\ pc = "published"
    /\ args \in {x \in AllArgs : x.bob_setup /\ x.alice_setup /\ x.mta_mode = "MtA"}
    /\ primes = ZeroPrimes
    /\ setup = NoSetup
    /\ \E pr \in SafePrimePool :
         LET N_tilda == pr.p * pr.q
         IN pubsetup \in [N_tilda : {N_tilda}, h1 : ForgedBases(N_tilda), h2 : ForgedBases(N_tilda),
                          dlog_proof : ForgedSetupProofs(N_tilda),
                          inv_dlog_proof : ForgedSetupProofs(N_tilda)]
    /\ setupRes = "none"
    /\ ek \in EncryptionKeys
    /\ wit = NoWit
    /\ msgA = NoMessageA
    /\ msgB = NoMessageB
    /\ beta = 0
    /\ tampered = NoTamper
    /\ res = "none"
    /\ mem = NoMem

NextForgeSetup == VerifySetup

SpecForgeSetup == InitForgeSetup /\ [][NextForgeSetup]_vars

\* C13: no ZkpPublicSetup with h2 = 1 passes verify(), whatever N_tilda, h1
\* and the two setup proofs (V, challenge, r) are.
C13_DegenerateRejected == ~(pc = "ready" /\ pubsetup.h2 = 1)

(***************************************************************************)
(* from_private_zkp_setup on the setups of ZkpSetup::random                *)
(***************************************************************************)
\* C14: from_private_zkp_setup never fails on a setup of ZkpSetup::random:
\* every alpha that random draws from [1, order) has an inverse modulo order,
\* and the abort with "alpha non invertible" is not reached.
C14_FromPrivateNeverFails ==
    /\ pc = "generated" => invert(setup.alpha, setup.order).some
    /\ pc # "panicked"

(***************************************************************************)
(* The Fiat - Shamir challenge of the generated proofs                     *)
(***************************************************************************)
\* A proof has just been generated and nothing has altered it.
AliceProofGenerated == pc = "a_sent" /\ msgA.range_proof.some /\ Untampered

BobProofGenerated ==
    pc = "b_sent" /\ msgB.kind \in {"RangeProof", "RangeProofExt"} /\ Untampered

\* The challenge the verifier recomputes from the transcript and the
\* transmitted nonce.
RecomputedAliceChallenge ==
    LET proof == msgA.range_proof.val
    IN create_hash_with_nonce(AliceTranscript(ek, msgA.c, proof.z, proof.u, proof.w), proof.e[2])

RecomputedBobChallenge ==
    LET proof == msgB.proof
    IN IF msgB.kind = "RangeProof"
       THEN create_hash_with_nonce(
                BobTranscript(ek, msgA.c, msgB.c, proof.z, proof.z_prim, proof.t, proof.v,
                              proof.w), proof.e[2])
       ELSE create_hash_with_nonce(
                BobExtTranscript(ek, msgB.X, msgA.c, msgB.c, msgB.u, proof.z, proof.z_prim,
                                 proof.t, proof.v, proof.w), proof.e[2])

\* Every generated proof carries the hash of its transcript with its nonce.
ChallengeIsTranscriptHash ==
    /\ AliceProofGenerated => msgA.range_proof.val.e = RecomputedAliceChallenge
    /\ BobProofGenerated => msgB.proof.e = RecomputedBobChallenge

\* The challenge of AliceProof::generate is below q.
AliceChallengeBound ==
    AliceProofGenerated =>
        msgA.range_proof.val.e[1] >= 0 /\ msgA.range_proof.val.e[1] < FE_q

\* C15: in every proof that AliceProof::generate, BobProof::generate and
\* BobProofExt::generate return, e.0 lies in [0, q) and is the hash of the
\* transcript with the transmitted nonce e.1.
C15_ChallengeBound ==
    /\ ChallengeIsTranscriptHash
    /\ AliceChallengeBound
    /\ BobProofGenerated => msgB.proof.e[1] >= 0 /\ msgB.proof.e[1] < FE_q

(***************************************************************************)
(* The check that rejects: what the verifiers log before they return false *)
(***************************************************************************)
BobProof_verify_with_hash_trace_NoHash(proof, e, a_enc, mta_avc_out, alice_ek, alice_setup) ==
    LET N == alice_ek.n
        NN == alice_ek.nn
        N_tilda == alice_setup.N_tilda
        h1 == alice_setup.h1
        h2 == alice_setup.h2
        lz == Rem(powm(h1, proof.s1, N_tilda) * powm(h2, proof.s2, N_tilda), N_tilda)
        rz == Rem(powm(proof.z, e[1], N_tilda) * proof.z_prim, N_tilda)
        lc1 == Rem(Rem(powm(a_enc, proof.s1, NN) * powm(proof.s, N, NN), NN)
                   * (proof.t1 * N + 1), NN)
        lc2 == Rem(powm(mta_avc_out, e[1], NN) * proof.v, NN)
        lw == Rem(powm(h1, proof.t1, N_tilda) * powm(h2, proof.t2, N_tilda), N_tilda)
        rw == Rem(powm(proof.t, e[1], N_tilda) * proof.w, N_tilda)
    IN IF proof.s1 > q3 THEN "proof.s1 is larger than q^3"
       ELSE IF powmAborts(h1, proof.s1, N_tilda) \/ powmAborts(h2, proof.s2, N_tilda)
            THEN "abort"
       ELSE IF lz # rz THEN "proof.z doesn't hold right value"
       ELSE IF powmAborts(a_enc, proof.s1, NN) THEN "abort"
       ELSE IF lc1 # lc2 THEN "proof.c2.v doesn't hold right value"
       ELSE IF powmAborts(h1, proof.t1, N_tilda) \/ powmAborts(h2, proof.t2, N_tilda)
            THEN "abort"
       ELSE IF lw # rw THEN "proof.t.w doesn't hold right value"
       ELSE "accepted"

\* BobProof::verify_with_hash: the log::trace! message of the check that
\* returns false, "accepted" when it returns true, "abort" when powm divides
\* by zero.
BobProof_verify_with_hash_trace(proof, e, a_enc, mta_avc_out, alice_ek, alice_setup) ==
    LET N == alice_ek.n
        NN == alice_ek.nn
        N_tilda == alice_setup.N_tilda
        h1 == alice_setup.h1
        h2 == alice_setup.h2
        lz == Rem(powm(h1, proof.s1, N_tilda) * powm(h2, proof.s2, N_tilda), N_tilda)
        rz == Rem(powm(proof.z, e[1], N_tilda) * proof.z_prim, N_tilda)
        lc1 == Rem(Rem(powm(a_enc, proof.s1, NN) * powm(proof.s, N, NN), NN)
                   * (proof.t1 * N + 1), NN)
        lc2 == Rem(powm(mta_avc_out, e[1], NN) * proof.v, NN)
        lw == Rem(powm(h1, proof.t1, N_tilda) * powm(h2, proof.t2, N_tilda), N_tilda)
        rw == Rem(powm(proof.t, e[1], N_tilda) * proof.w, N_tilda)
    IN IF e # proof.e THEN "hash doesn't match"
       ELSE IF proof.s1 > q3 THEN "proof.s1 is larger than q^3"
       ELSE IF powmAborts(h1, proof.s1, N_tilda) \/ powmAborts(h2, proof.s2, N_tilda)
            THEN "abort"
       ELSE IF lz # rz THEN "proof.z doesn't hold right value"
       ELSE IF powmAborts(a_enc, proof.s1, NN) THEN "abort"
       ELSE IF lc1 # lc2 THEN "proof.c2.v doesn't hold right value"
       ELSE IF powmAborts(h1, proof.t1, N_tilda) \/ powmAborts(h2, proof.t2, N_tilda)
            THEN "abort"
       ELSE IF lw # rw THEN "proof.t.w doesn't hold right value"
       ELSE "accepted"

\* BobProof::verify, likewise.
BobProof_verify_trace(proof, a_enc, mta_avc_out, alice_ek, alice_setup) ==
    LET e == create_hash_with_nonce(
                BobTranscript(alice_ek, a_enc, mta_avc_out, proof.z, proof.z_prim,
                              proof.t, proof.v, proof.w), proof.e[2])
    IN BobProof_verify_with_hash_trace(proof, e, a_enc, mta_avc_out, alice_ek, alice_setup)

\* BobProofExt::verify, likewise: the basic proof first, then the EC points.
BobProofExt_verify_trace(ext, a_enc, mta_avc_out, alice_ek, alice_zkp_setup) ==
    LET e == create_hash_with_nonce(
                BobExtTranscript(alice_ek, ext.X, a_enc, mta_avc_out, ext.u, ext.proof.z,
                                 ext.proof.z_prim, ext.proof.t, ext.proof.v, ext.proof.w),
                ext.proof.e[2])
        basic == BobProof_verify_with_hash_trace(ext.proof, e, a_enc, mta_avc_out, alice_ek,
                                                 alice_zkp_setup)
        x1 == PointMul(ECPoint_generator, ECScalar_from(ext.proof.s1))
        x2 == PointAdd(PointMul(ext.X, ECScalar_from(ext.proof.e[1])), ext.u)
    IN IF basic # "accepted" THEN basic
       ELSE IF x1 # x2 THEN "proof.X doesn't hold right value"
       ELSE "accepted"

\* What the verifier of the MessageB in flight logs.
TraceB ==
    IF msgB.kind = "RangeProof"
    THEN BobProof_verify_trace(msgB.proof, msgA.c, msgB.c, ek, setup)
    ELSE BobProofExt_verify_trace([proof |-> msgB.proof, u |-> msgB.u, X |-> msgB.X],
                                  msgA.c, msgB.c, ek, setup)

\* The verdict and the logged check agree.
TraceAgreesWithVerdict ==
    pc = "b_verified" =>
        res = (IF TraceB = "accepted" THEN "true" ELSE IF TraceB = "abort" THEN "abort"
               ELSE "false")

\* A BobProofExt that verifies had its X replaced by g * (b + 1), and the
\* verifier has returned.
XReplacedByNextPoint ==
    /\ pc = "b_verified"
    /\ msgB.kind = "RangeProofExt"
    /\ tampered.field = "X"
    /\ msgB.X = PointMul(ECPoint_generator, ECScalar_from(wit.b + 1))
    /\ OriginalVerdict = "true"

\* C16: replacing only X of a verifying BobProofExt by g * (b + 1) makes
\* verify return false, and the check that rejects is the EC binding check
\* g * s1 = X * e + u, not an earlier one.
C16_ECBindingRejects ==
    XReplacedByNextPoint =>
        res = "false" /\ TraceB = "proof.X doesn't hold right value"

\* C16 as the code has it: X is an input of the Fiat - Shamir hash, so the
\* check that rejects is the comparison of the recomputed challenge; the EC
\* binding check is reached only when the hash with the new X collides with
\* the transmitted one, and then it rejects unless e is a multiple of q.
C16_HashRejectsReplacedX ==
    XReplacedByNextPoint =>
        IF ~HashMatches THEN res = "false" /\ TraceB = "hash doesn't match"
        ELSE IF ECScalar_from(msgB.proof.e[1]) # 0
             THEN res = "false" /\ TraceB = "proof.X doesn't hold right value"
             ELSE res = "true"

C16_Witness == XReplacedByNextPoint /\ ~HashMatches /\ res = "false"

\* The two cases of a collision are reached as well.
C16_WitnessCollision ==
    XReplacedByNextPoint /\ HashMatches /\ ECScalar_from(msgB.proof.e[1]) # 0

C16_WitnessAccepted == XReplacedByNextPoint /\ HashMatches /\ res = "true"

(***************************************************************************)
(* Replay of a BobProof on another ciphertext                              *)
(***************************************************************************)
\* A BobProof that verifies for (c1, c2) was presented with the same c1 and
\* another c2, and the verifier has returned.
ReplayedOnOtherC2 ==
    /\ pc = "b_verified"
    /\ msgB.kind = "RangeProof"
    /\ tampered.field = "c"
    /\ OriginalVerdict = "true"

\* The digest of the inputs BobProof::verify lists, with c2 and the
\* transmitted nonce.
ReplayDigest(c2) ==
    LET p == msgB.proof
    IN create_hash(<<ek.n, ek.n + 1, msgA.c, c2, p.z, p.z_prim, p.t, p.v, p.w, p.e[2]>>)

\* The two transcripts do not collide under the hash.
ReplayDigestsDiffer == ReplayDigest(msgB.c) # ReplayDigest(tampered.was)

\* C17: a BobProof that verifies for (c1, c2) is rejected for the same c1 and
\* a different c2 (whose transcript has another digest), and the check that
\* rejects is the first one, the comparison of the recomputed (challenge,
\* nonce) with the transmitted pair, before the range and equation checks.
C17_ReplayRejectedByHash ==
    (ReplayedOnOtherC2 /\ ReplayDigestsDiffer) =>
        res = "false" /\ TraceB = "hash doesn't match"

C17_Witness == ReplayedOnOtherC2 /\ ReplayDigestsDiffer /\ res = "false"

(***************************************************************************)
(* A published setup whose h2 was swapped                                  *)
(***************************************************************************)
\* verify() has returned for a setup that verified as its owner published it
\* and whose h2 was then replaced, both proofs unchanged.
H2SwappedAndVerified ==
    /\ setupRes # "none"
    /\ tampered.field = "h2"
    /\ ZkpPublicSetup_verify([pubsetup EXCEPT !.h2 = tampered.was]) = "Ok"

\* The digest of the inputs of the first sub-proof's challenge, with h2.
SetupDigest(h2) ==
    create_hash(<<pubsetup.N_tilda, pubsetup.dlog_proof.V, pubsetup.h1, h2>>)

\* The transcripts with the old and the new h2 do not collide under the hash.
SetupDigestsDiffer == SetupDigest(pubsetup.h2) # SetupDigest(tampered.was)

\* C18: replacing h2 of a ZkpPublicSetup that verifies by another value (whose
\* transcript has another digest), both setup proofs unchanged, makes verify()
\* return an error, and the error is the challenge mismatch of the first
\* sub-proof, not the equation error "Dlog proof failed".
C18_CorruptedSetupRejected ==
    (H2SwappedAndVerified /\ SetupDigestsDiffer) =>
        /\ setupRes = "dlog proof: challenge does not match"
        /\ verify_proof(pubsetup.N_tilda, pubsetup.h1, pubsetup.h2, pubsetup.dlog_proof)
             = "dlog proof: challenge does not match"

C18_Witness ==
    /\ H2SwappedAndVerified
    /\ SetupDigestsDiffer
    /\ pc = "rejected"
    /\ setupRes = "dlog proof: challenge does not match"

(***************************************************************************)
(* The order of the checks of ZkpPublicSetup::verify                       *)
(***************************************************************************)
\* The transmitted challenge is the hash of (N_tilda, V, h1, h2).
ChallengeMatches(N_tilda, h1, h2, proof) ==
    proof.challenge = create_hash(<<N_tilda, proof.V, h1, h2>>)

\* V = h1^r * h2^challenge mod N_tilda, for the transmitted challenge.
EquationHolds(N_tilda, h1, h2, proof) ==
    /\ ~powmAborts(h1, proof.r, N_tilda)
    /\ proof.V = Rem(powm(h1, proof.r, N_tilda) * powm(h2, proof.challenge, N_tilda), N_tilda)

\* What verify_proof returns for the two sub-proofs of the setup verified.
FirstSubProof ==
    verify_proof(pubsetup.N_tilda, pubsetup.h1, pubsetup.h2, pubsetup.dlog_proof)

SecondSubProof ==
    verify_proof(pubsetup.N_tilda, pubsetup.h2, pubsetup.h1, pubsetup.inv_dlog_proof)

\* verify_proof compares the challenge first: a wrong challenge gives the
\* challenge mismatch whatever the equation does, and the equation error
\* comes only with a matching challenge.
ChallengeComparedFirst(N_tilda, h1, h2, proof) ==
    LET result == verify_proof(N_tilda, h1, h2, proof)
    IN /\ ~ChallengeMatches(N_tilda, h1, h2, proof)
            => result = "dlog proof: challenge does not match"
       /\ result = "Dlog proof failed"
            => ChallengeMatches(N_tilda, h1, h2, proof) /\ ~EquationHolds(N_tilda, h1, h2, proof)
       /\ result = "Ok"
            <=> ChallengeMatches(N_tilda, h1, h2, proof) /\ EquationHolds(N_tilda, h1, h2, proof)

\* C19: ZkpPublicSetup::verify returns Ok exactly when verify_proof succeeds
\* for (N_tilda, h1, h2, dlog_proof) and for (N_tilda, h2, h1, inv_dlog_proof);
\* verify_proof compares the recomputed challenge first, so a wrong challenge
\* yields the challenge mismatch even when the equation for V holds, and the
\* equation error is returned only when the challenge matches.
C19_VerifyOrder ==
    setupRes # "none" =>
        /\ setupRes = "Ok" <=> (FirstSubProof = "Ok" /\ SecondSubProof = "Ok")
        /\ setupRes # "Ok" => setupRes = (IF FirstSubProof # "Ok" THEN FirstSubProof
                                          ELSE SecondSubProof)
        /\ ChallengeComparedFirst(pubsetup.N_tilda, pubsetup.h1, pubsetup.h2,
                                  pubsetup.dlog_proof)
        /\ ChallengeComparedFirst(pubsetup.N_tilda, pubsetup.h2, pubsetup.h1,
                                  pubsetup.inv_dlog_proof)

\* verify() returned the challenge mismatch for a first sub-proof whose
\* equation holds.
C19_Witness ==
    /\ setupRes = "dlog proof: challenge does not match"
    /\ ~ChallengeMatches(pubsetup.N_tilda, pubsetup.h1, pubsetup.h2, pubsetup.dlog_proof)
    /\ EquationHolds(pubsetup.N_tilda, pubsetup.h1, pubsetup.h2, pubsetup.dlog_proof)

\* The other outcomes are reached as well: the first sub-proof passes and the
\* second fails its equation; both pass.
C19_WitnessSecondFails ==
    /\ FirstSubProof = "Ok"
    /\ setupRes = "Dlog proof failed"
    /\ ChallengeMatches(pubsetup.N_tilda, pubsetup.h2, pubsetup.h1, pubsetup.inv_dlog_proof)

C19_WitnessOk == setupRes = "Ok" /\ pubsetup.h1 \notin {0, 1}

(***************************************************************************)
(* The proof variant of MessageB                                           *)
(***************************************************************************)
\* Bob answers a MessageA that carries no range proof, with or without
\* Alice's setup, in either mode.
InitVariant == InitReady({x \in AllArgs : ~x.bob_setup})
SpecVariant == InitVariant /\ [][NextBob]_vars

\* C20: MessageB::new selects the variant of the proof from (alice_zkp_setup,
\* mta_mode) alone: (Some, MtA) gives RangeProof, (Some, MtAwc) gives
\* RangeProofExt, (None, either mode) gives DLogProofs; DLogProofs is never
\* produced when a setup is supplied and a range proof never without one.
C20_VariantSelection ==
    pc \in {"b_sent", "b_verified"} =>
        /\ msgB.kind = (IF ~args.alice_setup THEN "DLogProofs"
                        ELSE IF args.mta_mode = "MtA" THEN "RangeProof"
                        ELSE "RangeProofExt")
        /\ msgB.kind = "DLogProofs" =>
             /\ msgB.proof = NoBobProof
             /\ msgB.b_proof = DLogProof_prove(wit.b)
             /\ msgB.beta_tag_proof = DLogProof_prove(ECScalar_from(wit.beta_prim))
        /\ msgB.kind # "DLogProofs" => msgB.proof # NoBobProof

\* MessageB::new has returned DLogProofs for a call without a setup.
C20_Witness ==
    pc = "b_sent" /\ ~args.alice_setup /\ args.mta_mode = "MtAwc" /\ msgB.kind = "DLogProofs"

\* It has returned the extended range proof for (Some, MtAwc).
C20_WitnessExt ==
    pc = "b_sent" /\ args.alice_setup /\ args.mta_mode = "MtAwc" /\ msgB.kind = "RangeProofExt"

(***************************************************************************)
(* MessageA::new                                                           *)
(***************************************************************************)
\* Alice sends MessageA with or without Bob's setup; Bob verifies the range
\* proof if there is one.
InitMessageA == InitReady({x \in AllArgs : x.alice_setup /\ x.mta_mode = "MtA"})
SpecMessageA == InitMessageA /\ [][NextAlice]_vars

\* MessageA::new has returned and nothing has altered the message.
MessageAReturned == pc = "a_sent" /\ Untampered

\* The Paillier encryption of m with randomness r: g^m r^N mod N^2, g = N + 1.
Enc(pk, m, r) == Rem(powm(pk.n + 1, m, pk.nn) * powm(r, pk.n, pk.nn), pk.nn)

\* The equations of Alice's proof hold for the ciphertext cipher: every check
\* of AliceProof::verify but the bound on s1 passes.
AliceEquationsHold(proof, cipher) ==
    LET verdict == AliceProof_verify(proof, cipher, ek, setup)
    IN verdict = "true" \/ (verdict = "false" /\ proof.s1 > q3
                               /\ AliceProof_verify_NoRange(proof, cipher, ek, setup) = "true")

\* C21: MessageA::new returns a message whose c is Enc(a; r) for the r it
\* sampled in Z_N*, whose range_proof is present exactly when bob_setup was
\* supplied, and whose proof, when present, is over that c and that r.
C21_MessageANew ==
    MessageAReturned =>
        /\ wit.r \in 1 .. ek.n - 1 /\ gcd(wit.r, ek.n) = 1
        /\ msgA.c = Enc(ek, wit.a, wit.r)
        /\ Paillier_decrypt(ek, msgA.c) = wit.a
        /\ msgA.range_proof.some <=> args.bob_setup
        /\ ~msgA.range_proof.some => msgA.range_proof.val = NoAliceProof
        /\ msgA.range_proof.some =>
             /\ msgA.range_proof.val.e = RecomputedAliceChallenge
             /\ AliceEquationsHold(msgA.range_proof.val, msgA.c)

\* A MessageA with a range proof whose challenge is not zero.
C21_Witness ==
    /\ MessageAReturned
    /\ args.bob_setup
    /\ msgA.range_proof.some
    /\ msgA.range_proof.val.e[1] # 0

\* A MessageA without a range proof.
C21_WitnessNone == MessageAReturned /\ ~args.bob_setup /\ ~msgA.range_proof.some

(***************************************************************************)
(* The verifiers and the private part of the ZkpSetup                      *)
(***************************************************************************)
\* ZkpSetup values that agree with s on N_tilda, h1 and h2 and differ from it
\* in p, q, order or alpha.
SamePublicPart(s) ==
    {[s EXCEPT !.alpha = s.alpha + 1],
     [s EXCEPT !.order = s.order + 1, !.alpha = 1],
     [s EXCEPT !.p = s.q, !.q = s.p],
     [s EXCEPT !.p = 0, !.q = 0, !.order = 0, !.alpha = 0]}

\* C22: the range-proof verifiers use only N_tilda, h1 and h2 of the ZkpSetup
\* they are given: AliceProof::verify, BobProof::verify and
\* BobProofExt::verify return, for every ZkpSetup with the same N_tilda, h1
\* and h2 and another p, q, order or alpha, the result they returned, on the
\* same proof, ciphertexts and Paillier key.
C22_VerifiersUsePublicPart ==
    /\ pc = "a_verified" =>
         \A s \in SamePublicPart(setup) :
           AliceProof_verify(msgA.range_proof.val, msgA.c, ek, s) = res
    /\ pc = "b_verified" =>
         \A s \in SamePublicPart(setup) :
           res = IF msgB.kind = "RangeProof"
                 THEN BobProof_verify(msgB.proof, msgA.c, msgB.c, ek, s)
                 ELSE BobProofExt_verify([proof |-> msgB.proof, u |-> msgB.u, X |-> msgB.X],
                                         msgA.c, msgB.c, ek, s)

\* An accepted and a rejected proof of each verifier.
C22_Witness == pc = "b_verified" /\ msgB.kind = "RangeProofExt" /\ res = "true"

C22_WitnessBob == pc = "b_verified" /\ msgB.kind = "RangeProof" /\ res = "true"

C22_WitnessAlice == pc = "a_verified" /\ res = "true"

C22_WitnessRejected == pc = "b_verified" /\ res = "false" /\ HashMatches

(***************************************************************************)
(* The Schnorr proof of the setup on its own: dlog_proof, then verify_proof*)
(***************************************************************************)
\* The moduli of the pool and two small ones, one of them not square-free.
SchnorrModuli == {pr.p * pr.q : pr \in SafePrimePool} \cup {9, 15}

\* The arguments of dlog_proof: a modulus, a unit h1, an `order` that the
\* order of h1 divides, a witness dlog and h2 = h1^dlog.
SchnorrArgs ==
    UNION {UNION {UNION {
        {[p |-> 0, q |-> 0, order |-> order, alpha |-> dlog, N_tilda |-> N_tilda,
          h1 |-> h1, h2 |-> powm(h1, dlog, N_tilda)] :
            dlog \in sample_range(0, order + 2)} :
        order \in {Order(h1, N_tilda), 2 * Order(h1, N_tilda)}} :
        h1 \in Units(N_tilda)} :
        N_tilda \in SchnorrModuli}

InitSchnorr ==
    /\ pc = "dlog_args"
    /\ args \in {x \in AllArgs : x.bob_setup /\ x.alice_setup /\ x.mta_mode = "MtA"}
    /\ primes = ZeroPrimes
    /\ setup \in SchnorrArgs
    /\ pubsetup = [NoPublicSetup EXCEPT !.N_tilda = setup.N_tilda, !.h1 = setup.h1,
                                        !.h2 = setup.h2]
    /\ setupRes = "none"
    /\ ek \in EncryptionKeys
    /\ wit = NoWit
    /\ msgA = NoMessageA
    /\ msgB = NoMessageB
    /\ beta = 0
    /\ tampered = NoTamper
    /\ res = "none"
    /\ mem = NoMem

\* ZkpSetup::dlog_proof(N_tilda, h1, h2, dlog, order)
DlogProofCall ==
    /\ pc = "dlog_args"
    /\ \E v \in sample_range(1, setup.N_tilda - 1) :
         /\ pubsetup' = [pubsetup EXCEPT !.dlog_proof =
                            dlog_proof(setup.N_tilda, setup.h1, setup.h2, setup.alpha,
                                       setup.order, v)]
         /\ mem' = [mem EXCEPT !.v = zeroize_bn(v)]
    /\ pc' = "proved"
    /\ UNCHANGED <<args, primes, setup, setupRes, ek, wit, msgA, msgB, beta, tampered, res>>

\* An implementation of the other sign convention: the same proof with r
\* reduced to its representative in [0, order).
DlogProofNonNegative ==
    /\ pc = "dlog_args"
    /\ \E v \in sample_range(1, setup.N_tilda - 1) :
         LET proof == dlog_proof(setup.N_tilda, setup.h1, setup.h2, setup.alpha,
                                 setup.order, v)
         IN /\ pubsetup' = [pubsetup EXCEPT !.dlog_proof = [proof EXCEPT !.r = proof.r % setup.order]]
            /\ tampered' = [field |-> "r", was |-> proof.r]
            /\ mem' = [mem EXCEPT !.v = zeroize_bn(v)]
    /\ pc' = "proved"
    /\ UNCHANGED <<args, primes, setup, setupRes, ek, wit, msgA, msgB, beta, res>>

\* ZkpPublicSetup::verify_proof(N_tilda, h1, h2, &proof)
VerifyProofCall ==
    /\ pc = "proved"
    /\ setupRes' = verify_proof(pubsetup.N_tilda, pubsetup.h1, pubsetup.h2, pubsetup.dlog_proof)
    /\ pc' = "checked"
    /\ UNCHANGED <<args, primes, setup, pubsetup, ek, wit, msgA, msgB, beta, tampered, res, mem>>

NextSchnorr == DlogProofCall \/ DlogProofNonNegative \/ VerifyProofCall

SpecSchnorr == InitSchnorr /\ [][NextSchnorr]_vars

\* C23: for every modulus, every unit h1 whose order divides `order`, every
\* dlog with h2 = h1^dlog and every nonce v, the proof of dlog_proof passes
\* verify_proof, with r the truncated (possibly negative) remainder as the
\* code computes it and with r reduced to the non-negative representative.
C23_SchnorrRoundTrip == pc = "checked" => setupRes = "Ok"

\* A proof with a negative r has passed.
C23_Witness == pc = "checked" /\ pubsetup.dlog_proof.r < 0 /\ setupRes = "Ok"

\* So has one whose negative r was replaced by the non-negative representative.
C23_WitnessNonNegative ==
    /\ pc = "checked"
    /\ tampered.field = "r"
    /\ tampered.was < 0
    /\ pubsetup.dlog_proof.r > 0
    /\ setupRes = "Ok"

(***************************************************************************)
(* The lower end of the range of s1                                        *)
(***************************************************************************)
\* C24: every proof that AliceProof::verify, BobProof::verify or
\* BobProofExt::verify accepts has its s1 in [-q^3, q^3]; no accepted proof
\* has s1 below -q^3.
C24_TwoSidedRange ==
    (pc \in {"a_verified", "b_verified"} /\ res = "true") =>
        GivenS1 >= -q3 /\ GivenS1 <= q3

\* The upper end, which the verifiers test.
AcceptedS1AtMostQ3 ==
    (pc \in {"a_verified", "b_verified"} /\ res = "true") => GivenS1 <= q3

\* AliceProof::verify accepts no s1 below -q^3 among the proofs it is handed here.
AliceAcceptedS1AtLeastMinusQ3 == (pc = "a_verified" /\ res = "true") => GivenS1 >= -q3
====
